---- MODULE Spec2Model ----
(***************************************************************************)
(* A model of src/src/filesystem.cc: the credential cache and the backend  *)
(* factory (FileSystemManager), the reference-counted AWS SDK bootstrap    *)
(* (S3FileSystem), and directory localization on the object stores.        *)
(*                                                                         *)
(* Strings are sequences of one-character strings, so that prefix tests,   *)
(* substr, find and JoinPath are computed as the code computes them.       *)
(***************************************************************************)
EXTENDS Integers, Sequences, FiniteSets, TLC

VARIABLES
  \* ---- process environment read by LoadCredential
  env,                    \* TRITON_CLOUD_CREDENTIAL_PATH: "unset", or what is at
                          \* the path it names: a document id, or "unreadable"
  \* ---- FileSystemManager statics
  mu_,                    \* holder of FileSystemManager::mu_, NoThread when free
  is_credential_cached_,
  cred,                   \* gs_credential_, s3_credential_, as_credential_ by kind
  loadedDoc,              \* history: the document the last completed parse read
  parsesNoFlush,          \* history: completed parses done by LoadCredential(false)
  th,                     \* per thread: the call stack of one resolve(uri)
  \* ---- S3FileSystem statics
  init_mu_,               \* holder of S3FileSystem::init_mu_
  init_count_,
  sdk,                    \* "down" | "up": the AWS SDK after ShutdownAPI / InitAPI
  apiMisuse,              \* history: InitAPI while up, or ShutdownAPI while down
  s3,                     \* per thread: position in the constructor / destructor
  apiLog,                 \* history: the InitAPI / ShutdownAPI calls made by
                          \* constructors and destructors run step by step
  \* ---- one call of GetLongestMatchingCredential
  table,                  \* its credentials argument
  clean_path,             \* its path argument (scheme already stripped)
  matched,                \* what it returned; the status is "none" before the call
  \* ---- LocalizeDirectory on the object stores
  remote,                 \* the keys of the objects in the bucket / container
  source,                 \* the URI both threads localize
  localDirs,              \* the local filesystem: directories
  localFiles,             \* the local filesystem: files, as [path, data]
  loc,                    \* per thread: the LocalizeDirectory call in progress
  \* ---- one call of an operation that changes nothing
  bucket_exists,          \* the bucket / container of the URIs is there
  probe,                  \* the call made, its arguments and what it returned
  \* ---- GCSFileSystem constructors
  gac,                    \* the process environment: GOOGLE_APPLICATION_CREDENTIALS
  env_mu_,                \* holder of GCSFileSystem::env_mu_
  gcs                     \* per thread: position in the constructor, its
                          \* argument, and what its client_ was created from

credVars == <<env, mu_, is_credential_cached_, cred, loadedDoc,
              parsesNoFlush, th>>
s3Vars   == <<init_mu_, init_count_, sdk, apiMisuse, s3>>
matchVars == <<table, clean_path, matched>>
locVars  == <<remote, source, localDirs, localFiles, loc>>
probeVars == <<bucket_exists, probe>>
gcsVars  == <<gac, env_mu_, gcs>>
restVars == <<matchVars, apiLog, locVars, probeVars, gcsVars>>
vars     == <<credVars, s3Vars, restVars>>

Threads  == {1, 2}
NoThread == 0

----------------------------------------------------------------------------
(* Strings *)

\* std::string::rfind(prefix, 0) == 0: prefix is a textual prefix of s
StartsWith(s, prefix) ==
  /\ Len(prefix) <= Len(s)
  /\ \A i \in 1..Len(prefix) : s[i] = prefix[i]

\* std::string::npos converted to int
Npos == 0 - 1

\* s.find(pat, from) as an int: the first 0-based position at or after from
Find(s, pat, from) ==
  LET hits == { i \in from..(Len(s) - Len(pat)) :
                  SubSeq(s, i + 1, i + Len(pat)) = pat }
  IN  IF hits = {} THEN Npos ELSE CHOOSE i \in hits : \A j \in hits : i <= j

\* s.substr(pos): the rest of s from 0-based position pos
SubstrFrom(s, pos) == SubSeq(s, pos + 1, Len(s))

\* s.substr(pos, count): count is a size_t, so a negative int reaches the end
Substr(s, pos, count) ==
  IF count < 0 \/ pos + count > Len(s)
    THEN SubstrFrom(s, pos)
    ELSE SubSeq(s, pos + 1, pos + count)

\* AppendSlash: if (name.empty() || name.back() == '/') return name
AppendSlash(name) ==
  IF name = <<>> \/ name[Len(name)] = "/" THEN name ELSE name \o <<"/">>

\* IsAbsolutePath: !path.empty() && path[0] == '/'
IsAbsolutePath(p) == p # <<>> /\ p[1] = "/"

RECURSIVE JoinFrom(_, _, _)
JoinFrom(joined, segments, i) ==
  IF i > Len(segments) THEN joined
  ELSE LET seg == segments[i]
           nxt == IF joined = <<>> THEN seg
                  ELSE IF IsAbsolutePath(seg)
                    THEN IF joined[Len(joined)] = "/"
                           THEN joined \o SubstrFrom(seg, 1)
                           ELSE joined \o seg
                    ELSE IF joined[Len(joined)] # "/"
                           THEN joined \o <<"/">> \o seg
                           ELSE joined \o seg
       IN  JoinFrom(nxt, segments, i + 1)

\* JoinPath(std::initializer_list<std::string> segments)
JoinPath(segments) == JoinFrom(<<>>, segments, 1)

\* the characters of the model in the order of their codes
CharOrder ==
  << "/", "1", "2", "3", ":", "a", "b", "c", "d", "e", "f", "g", "h", "l",
     "m", "o", "p", "r", "s", "t", "x" >>

Rank(c) == CHOOSE i \in DOMAIN CharOrder : CharOrder[i] = c

\* operator< of std::string: lexicographic by character code
StrLess(a, b) ==
  \E i \in 1..(Len(a) + 1) :
    /\ \A j \in 1..(i - 1) : j <= Len(b) /\ a[j] = b[j]
    /\ i <= Len(b)
    /\ i > Len(a) \/ Rank(a[i]) < Rank(b[i])

\* *set.begin() of a non-empty std::set<std::string>
First(S) == CHOOSE a \in S : \A b \in S \ {a} : StrLess(a, b)

----------------------------------------------------------------------------
(* Status codes *)

Success       == "SUCCESS"
AlreadyExists == "ALREADY_EXISTS"   \* LoadCredential: "Cached"
Unavailable   == "UNAVAILABLE"      \* LoadCredential: "Use legacy credential"
NotFound      == "NOT_FOUND"        \* GetLongestMatchingCredential
Internal      == "INTERNAL"
Unsupported   == "UNSUPPORTED"
InvalidArg    == "INVALID_ARG"

NoCred        == "none"

Kinds   == {"gs", "s3", "as"}
KindSeq == <<"gs", "s3", "as">>

\* the scheme prefixes GetFileSystem tests with path.rfind(scheme, 0)
Scheme(k) ==
  CASE k = "gs" -> <<"g", "s", ":", "/", "/">>
    [] k = "s3" -> <<"s", "3", ":", "/", "/">>
    [] k = "as" -> <<"a", "s", ":", "/", "/">>

\* GetFileSystem: the first scheme test that succeeds, in the order gs, s3, as
UriKind(uri) ==
  IF uri # <<>> /\ StartsWith(uri, Scheme("gs")) THEN "gs"
  ELSE IF uri # <<>> /\ StartsWith(uri, Scheme("s3")) THEN "s3"
  ELSE IF uri # <<>> /\ StartsWith(uri, Scheme("as")) THEN "as"
  ELSE "local"

\* path.substr(5, std::string::npos)
StripScheme(uri) == SubSeq(uri, 6, Len(uri))

----------------------------------------------------------------------------
(* The credential file.  A document gives, per backend kind, the members   *)
(* of that kind's JSON object in document order (an absent section and an  *)
(* empty one load alike: the table is cleared and nothing is pushed).      *)

E(n, c) == [name |-> n, cred |-> c]

Docs ==
  [ A |-> [ gs |-> << E(<<"a">>, "g1"), E(<<"a", "b">>, "g2") >>,
            s3 |-> << E(<<>>, "s1") >>,
            as |-> << >> ],
    B |-> [ gs |-> << E(<<"a", "b">>, "g3"), E(<<"b">>, "g4"), E(<<"b", "a">>, "g5") >>,
            s3 |-> << E(<<"b">>, "s2") >>,
            as |-> << E(<<"a">>, "z1") >> ] ]

DocIds == DOMAIN Docs
\* "unreadable": ReadTextFile fails, or the content is not JSON
Files  == DocIds \cup {"unreadable"}
Envs   == Files \cup {"unset"}

\* the URIs the threads resolve
Uris == { Scheme("gs") \o <<"a", "b">>, Scheme("gs") \o <<"b">>,
          Scheme("s3") \o <<"b">>, Scheme("as") \o <<"b">> }

----------------------------------------------------------------------------
(* SortCredential and GetLongestMatchingCredential *)

Range(t) == { t[i] : i \in DOMAIN t }

Perms(t) ==
  { p \in [DOMAIN t -> Range(t)] :
      \E f \in [DOMAIN t -> DOMAIN t] :
        /\ \A i, j \in DOMAIN t : i # j => f[i] # f[j]
        /\ \A i \in DOMAIN t : p[i] = t[f[i]] }

IsSortedDesc(t) ==
  \A i, j \in DOMAIN t : i < j => Len(t[i].name) >= Len(t[j].name)

\* the comparator of SortCredential: i.first.size() >= j.first.size()
SortComp(i, j) == Len(i.name) >= Len(j.name)

\* std::sort requires a strict weak ordering; the comparator is one on the
\* elements being sorted exactly when no two of them compare true both ways
CompIsStrictOn(t) ==
  \A i, j \in DOMAIN t : i # j => ~(SortComp(t[i], t[j]) /\ SortComp(t[j], t[i]))

\* The outcomes of std::sort(credential.begin(), credential.end(), comp):
\* the ordering by comp when comp is a strict weak ordering on the elements,
\* and otherwise (undefined behaviour) any arrangement of them.
SortCredential(t) ==
  IF CompIsStrictOn(t)
    THEN { p \in Perms(t) :
             \A i, j \in DOMAIN p : i < j => SortComp(p[i], p[j]) }
    ELSE Perms(t)

\* a match that keeps scanning and returns the last entry that matches
GetLongestMatchingCredential_Last(credentials, path) ==
  LET hits == { i \in DOMAIN credentials : StartsWith(path, credentials[i].name) }
  IN  IF hits = {}
        THEN [status |-> NotFound, credential |-> NoCred]
        ELSE [status |-> Success,
              credential |-> credentials[CHOOSE i \in hits : \A j \in hits : j <= i].cred]

RECURSIVE FirstMatch(_, _, _)
FirstMatch(credentials, path, i) ==
  IF i > Len(credentials) THEN 0
  ELSE IF StartsWith(path, credentials[i].name) THEN i
  ELSE FirstMatch(credentials, path, i + 1)

GetLongestMatchingCredential(credentials, path) ==
  LET i == FirstMatch(credentials, path, 1)
  IN  IF i = 0
        THEN [status |-> NotFound, credential |-> NoCred]
        ELSE [status |-> Success, credential |-> credentials[i].cred]

----------------------------------------------------------------------------
(* The AWS SDK bootstrap: the counted sections of the S3FileSystem          *)
(* constructor and destructor, each run while init_mu_ is held.            *)

S3Static == [count |-> init_count_, api |-> "none", sdk |-> sdk,
             misuse |-> apiMisuse]

\* if (!init_count_++) { Aws::InitAPI(options_); }
CountedInit(st) ==
  [ count  |-> st.count + 1,
    api    |-> IF st.count = 0 THEN "InitAPI" ELSE "none",
    sdk    |-> IF st.count = 0 THEN "up" ELSE st.sdk,
    misuse |-> st.misuse \/ (st.count = 0 /\ st.sdk = "up") ]

\* if (!--init_count_) { Aws::ShutdownAPI(options_); }
CountedShutdown(st) ==
  [ count  |-> st.count - 1,
    api    |-> IF st.count - 1 = 0 THEN "ShutdownAPI" ELSE "none",
    sdk    |-> IF st.count - 1 = 0 THEN "down" ELSE st.sdk,
    misuse |-> st.misuse \/ (st.count - 1 = 0 /\ st.sdk = "down") ]

SetS3Static(st) ==
  /\ init_count_' = st.count
  /\ sdk' = st.sdk
  /\ apiMisuse' = st.misuse

\* FileSystemManager: xx_fs_.reset(new XXFileSystem(...)) builds the new
\* backend and then destroys the one the manager held; only S3 backends
\* touch the SDK count.
ResetBackend(old, new) ==
  LET built == IF new = "s3" THEN CountedInit(S3Static) ELSE S3Static
  IN  IF old = "s3" THEN CountedShutdown(built) ELSE built

----------------------------------------------------------------------------
(* resolve(uri): FileSystemManager::GetFileSystem(path), one call per      *)
(* thread at a time, each on its own FileSystemManager.                    *)

MaxAttempts == 3   \* the model stops re-entering GetFileSystem at this depth

IdleRec ==
  [ pc |-> "idle", uri |-> <<>>,
    flush |-> FALSE, purpose |-> "none",   \* the LoadCredential call in progress
    doc |-> "none", ldk |-> 0, ldi |-> 0,  \* its parse: document, kind, member
    lstatus |-> "none",                    \* what it returned
    load_status |-> "none", error_status |-> "none", credential |-> NoCred,
    fs |-> "none",                         \* the backend this manager holds
    result |-> "none",
    type |-> "none",                       \* GetFileSystem(type): its argument
    kind_status |-> "none",                \* and what its LoadCredential() returned
    attempts |-> 0, reloads |-> 0 ]        \* history of this resolve

Parsing(u) == th[u].pc \in {"lc_clear", "lc_push", "lc_sort", "lc_finish"}

Set(t, r) == th' = [th EXCEPT ![t] = r]

\* std::lock_guard<std::mutex> lock(mu_)
MuAvailable == mu_ = NoThread

\* the environment changes under the program at any time
EnvChange ==
  /\ \E e \in Envs \ {env} : env' = e
  /\ UNCHANGED <<mu_, is_credential_cached_, cred, loadedDoc, parsesNoFlush, th>>
  /\ UNCHANGED <<s3Vars, restVars>>

\* an API function (FileExists, LocalizeDirectory, ...) calls
\* fsm.GetFileSystem(path, &fs) with a cloud URI
Resolve(t) ==
  /\ th[t].pc = "idle"
  /\ \E uri \in Uris :
       Set(t, [IdleRec EXCEPT !.pc = "LoadCredential", !.uri = uri,
                              !.flush = FALSE, !.purpose = "resolve",
                              !.attempts = 1])
  /\ UNCHANGED <<env, mu_, is_credential_cached_, cred, loadedDoc,
                 parsesNoFlush>>
  /\ UNCHANGED <<s3Vars, restVars>>

\* LoadCredential: if (is_credential_cached_ && !flush_cache) return ALREADY_EXISTS
LoadCached(t) ==
  /\ th[t].pc = "LoadCredential"
  /\ MuAvailable
  /\ is_credential_cached_ /\ ~th[t].flush
  /\ Set(t, [th[t] EXCEPT !.pc = "lc_ret", !.lstatus = AlreadyExists])
  /\ UNCHANGED <<env, mu_, is_credential_cached_, cred, loadedDoc,
                 parsesNoFlush>>
  /\ UNCHANGED <<s3Vars, restVars>>

\* a LoadCredential that marks the cache unpopulated when it finds no path
LoadNotConfigured_Unmarks(t) ==
  /\ th[t].pc = "LoadCredential"
  /\ MuAvailable
  /\ ~(is_credential_cached_ /\ ~th[t].flush)
  /\ env = "unset"
  /\ is_credential_cached_' = FALSE
  /\ Set(t, [th[t] EXCEPT !.pc = "lc_ret", !.lstatus = Unavailable])
  /\ UNCHANGED <<env, mu_, cred, loadedDoc, parsesNoFlush>>
  /\ UNCHANGED <<s3Vars, restVars>>

\* LoadCredential: getenv gives nullptr: return UNAVAILABLE
LoadNotConfigured(t) ==
  /\ th[t].pc = "LoadCredential"
  /\ MuAvailable
  /\ ~(is_credential_cached_ /\ ~th[t].flush)
  /\ env = "unset"
  /\ Set(t, [th[t] EXCEPT !.pc = "lc_ret", !.lstatus = Unavailable])
  /\ UNCHANGED <<env, mu_, is_credential_cached_, cred, loadedDoc,
                 parsesNoFlush>>
  /\ UNCHANGED <<s3Vars, restVars>>

\* a LoadCredential that clears the tables before it reads the file
LoadReadFails_ClearsFirst(t) ==
  /\ th[t].pc = "LoadCredential"
  /\ MuAvailable
  /\ ~(is_credential_cached_ /\ ~th[t].flush)
  /\ env = "unreadable"
  /\ cred' = [k \in Kinds |-> <<>>]
  /\ Set(t, [th[t] EXCEPT !.pc = "lc_ret", !.lstatus = Internal])
  /\ UNCHANGED <<env, mu_, is_credential_cached_, loadedDoc, parsesNoFlush>>
  /\ UNCHANGED <<s3Vars, restVars>>

\* LoadCredential: RETURN_IF_ERROR(fs.ReadTextFile), RETURN_IF_ERROR(Parse)
LoadReadFails(t) ==
  /\ th[t].pc = "LoadCredential"
  /\ MuAvailable
  /\ ~(is_credential_cached_ /\ ~th[t].flush)
  /\ env = "unreadable"
  /\ Set(t, [th[t] EXCEPT !.pc = "lc_ret", !.lstatus = Internal])
  /\ UNCHANGED <<env, mu_, is_credential_cached_, cred, loadedDoc,
                 parsesNoFlush>>
  /\ UNCHANGED <<s3Vars, restVars>>

\* LoadCredential: the file is read and parsed; the tables are rebuilt next,
\* with mu_ held
LoadBeginParse(t) ==
  /\ th[t].pc = "LoadCredential"
  /\ MuAvailable
  /\ ~(is_credential_cached_ /\ ~th[t].flush)
  /\ env \in DocIds
  /\ mu_' = t
  /\ Set(t, [th[t] EXCEPT !.pc = "lc_clear", !.doc = env, !.ldk = 1])
  /\ UNCHANGED <<env, is_credential_cached_, cred, loadedDoc,
                 parsesNoFlush>>
  /\ UNCHANGED <<s3Vars, restVars>>

\* after one kind's table is done: the next kind, or the end of the parse
NextKind(r) ==
  IF r.ldk < Len(KindSeq)
    THEN [r EXCEPT !.pc = "lc_clear", !.ldk = r.ldk + 1, !.ldi = 0]
    ELSE [r EXCEPT !.pc = "lc_finish", !.ldk = 0, !.ldi = 0]

\* xx_credential_.clear(); if (creds_json.Find(kind, ...)) ...
LoadClear(t) ==
  /\ th[t].pc = "lc_clear"
  /\ LET k == KindSeq[th[t].ldk]
     IN  /\ cred' = [cred EXCEPT ![k] = <<>>]
         /\ IF Len(Docs[th[t].doc][k]) > 0
              THEN Set(t, [th[t] EXCEPT !.pc = "lc_push", !.ldi = 1])
              ELSE Set(t, NextKind(th[t]))
  /\ UNCHANGED <<env, mu_, is_credential_cached_, loadedDoc,
                 parsesNoFlush>>
  /\ UNCHANGED <<s3Vars, restVars>>

\* xx_credential_.push_back(std::make_pair(name, payload))
LoadPush(t) ==
  /\ th[t].pc = "lc_push"
  /\ LET k == KindSeq[th[t].ldk]
         members == Docs[th[t].doc][k]
     IN  /\ cred' = [cred EXCEPT ![k] = Append(@, members[th[t].ldi])]
         /\ IF th[t].ldi < Len(members)
              THEN Set(t, [th[t] EXCEPT !.ldi = @ + 1])
              ELSE Set(t, [th[t] EXCEPT !.pc = "lc_sort"])
  /\ UNCHANGED <<env, mu_, is_credential_cached_, loadedDoc,
                 parsesNoFlush>>
  /\ UNCHANGED <<s3Vars, restVars>>

\* SortCredential(xx_credential_)
LoadSort(t) ==
  /\ th[t].pc = "lc_sort"
  /\ LET k == KindSeq[th[t].ldk]
     IN  \E sorted \in SortCredential(cred[k]) :
           cred' = [cred EXCEPT ![k] = sorted]
  /\ Set(t, NextKind(th[t]))
  /\ UNCHANGED <<env, mu_, is_credential_cached_, loadedDoc,
                 parsesNoFlush>>
  /\ UNCHANGED <<s3Vars, restVars>>

\* a LoadCredential that forgets to mark the cache populated
LoadFinish_NotMarked(t) ==
  /\ th[t].pc = "lc_finish"
  /\ mu_' = NoThread
  /\ loadedDoc' = th[t].doc
  /\ parsesNoFlush' = IF th[t].flush THEN parsesNoFlush ELSE parsesNoFlush + 1
  /\ Set(t, [th[t] EXCEPT !.pc = "lc_ret", !.lstatus = Success, !.doc = "none"])
  /\ UNCHANGED <<env, cred, is_credential_cached_>>
  /\ UNCHANGED <<s3Vars, restVars>>

\* is_credential_cached_ = true; return Status::Success (mu_ is released)
LoadFinish(t) ==
  /\ th[t].pc = "lc_finish"
  /\ is_credential_cached_' = TRUE
  /\ mu_' = NoThread
  /\ loadedDoc' = th[t].doc
  /\ parsesNoFlush' = IF th[t].flush THEN parsesNoFlush ELSE parsesNoFlush + 1
  /\ Set(t, [th[t] EXCEPT !.pc = "lc_ret", !.lstatus = Success, !.doc = "none"])
  /\ UNCHANGED <<env, cred>>
  /\ UNCHANGED <<s3Vars, restVars>>

CredUnchanged == UNCHANGED <<env, mu_, is_credential_cached_, cred,
                             loadedDoc, parsesNoFlush>>

\* GetFileSystem(path): const Status& load_status = LoadCredential();
\* OK or ALREADY_EXISTS goes on to the match
LoadedGoMatch(t) ==
  /\ th[t].pc = "lc_ret" /\ th[t].purpose = "resolve"
  /\ th[t].lstatus \in {Success, AlreadyExists}
  /\ Set(t, [th[t] EXCEPT !.pc = "match", !.load_status = th[t].lstatus,
                          !.lstatus = "none"])
  /\ CredUnchanged
  /\ UNCHANGED <<s3Vars, restVars>>

\* GetFileSystem(path): UNAVAILABLE builds the backend from the provider's
\* environment variables; RETURN_IF_ERROR(CheckClient())
LoadedGoLegacy(t) ==
  /\ th[t].pc = "lc_ret" /\ th[t].purpose = "resolve"
  /\ th[t].lstatus = Unavailable
  /\ \E ok \in BOOLEAN :
       Set(t, [th[t] EXCEPT !.pc = "ret", !.load_status = th[t].lstatus,
                 !.lstatus = "none",
                 !.fs = UriKind(th[t].uri),
                 !.result = IF ok THEN Success ELSE Internal])
  /\ SetS3Static(ResetBackend(th[t].fs, UriKind(th[t].uri)))
  /\ UNCHANGED restVars
  /\ CredUnchanged
  /\ UNCHANGED <<init_mu_, s3>>

\* a GetFileSystem(path) with no legacy branch: it returns whatever failure
\* LoadCredential reported, UNAVAILABLE included
LoadedGoError_NoLegacy(t) ==
  /\ th[t].pc = "lc_ret" /\ th[t].purpose = "resolve"
  /\ th[t].lstatus \notin {Success, AlreadyExists}
  /\ Set(t, [th[t] EXCEPT !.pc = "ret", !.load_status = th[t].lstatus,
                 !.lstatus = "none",
                 !.result = th[t].lstatus])
  /\ CredUnchanged
  /\ UNCHANGED <<s3Vars, restVars>>

\* GetFileSystem(path): return load_status
LoadedGoError(t) ==
  /\ th[t].pc = "lc_ret" /\ th[t].purpose = "resolve"
  /\ th[t].lstatus \notin {Success, AlreadyExists, Unavailable}
  /\ Set(t, [th[t] EXCEPT !.pc = "ret", !.load_status = th[t].lstatus,
                 !.lstatus = "none",
                 !.result = th[t].lstatus])
  /\ CredUnchanged
  /\ UNCHANGED <<s3Vars, restVars>>

\* GetFileSystem(path): GetLongestMatchingCredential(xx_credential_, scheme,
\* path.substr(5), credential), run without mu_
Match(t) ==
  /\ th[t].pc = "match"
  /\ LET m    == GetLongestMatchingCredential(cred[UriKind(th[t].uri)],
                                              StripScheme(th[t].uri))
     IN  IF m.status = Success
           THEN Set(t, [th[t] EXCEPT !.pc = "construct",
                                     !.credential = m.credential])
           ELSE Set(t, [th[t] EXCEPT !.pc = "ReturnErrorOrReload",
                                     !.error_status = m.status])
  /\ CredUnchanged
  /\ UNCHANGED <<s3Vars, restVars>>

\* GetFileSystem(path): xx_fs_.reset(new XXFileSystem(credential));
\* client_status = xx_fs_->CheckClient()
Construct(t) ==
  /\ th[t].pc = "construct"
  /\ \E ok \in BOOLEAN :
       IF ok
         THEN Set(t, [th[t] EXCEPT !.pc = "ret", !.fs = UriKind(th[t].uri),
                                   !.credential = NoCred, !.result = Success])
         ELSE Set(t, [th[t] EXCEPT !.pc = "ReturnErrorOrReload",
                                   !.fs = UriKind(th[t].uri),
                                   !.credential = NoCred,
                                   !.error_status = Internal])
  /\ SetS3Static(ResetBackend(th[t].fs, UriKind(th[t].uri)))
  /\ UNCHANGED restVars
  /\ CredUnchanged
  /\ UNCHANGED <<init_mu_, s3>>

\* a ReturnErrorOrReload that reloads on a cached table instead
ReturnsError_UnlessCached(load_status) == load_status # AlreadyExists

\* ReturnErrorOrReload: if (load_status.StatusCode() == ALREADY_EXISTS)
ReturnsError(load_status) == load_status = AlreadyExists

\* ReturnErrorOrReload: return error_status
ReturnError(t) ==
  /\ th[t].pc = "ReturnErrorOrReload"
  /\ ReturnsError(th[t].load_status)
  /\ Set(t, [th[t] EXCEPT !.pc = "ret", !.result = th[t].error_status,
                          !.error_status = "none"])
  /\ CredUnchanged
  /\ UNCHANGED <<s3Vars, restVars>>

\* ReturnErrorOrReload: LoadCredential(true)
Reload(t) ==
  /\ th[t].pc = "ReturnErrorOrReload"
  /\ ~ReturnsError(th[t].load_status)
  /\ Set(t, [th[t] EXCEPT !.pc = "LoadCredential", !.flush = TRUE,
                          !.purpose = "reload", !.reloads = @ + 1,
                          !.load_status = "none", !.error_status = "none"])
  /\ CredUnchanged
  /\ UNCHANGED <<s3Vars, restVars>>

\* ReturnErrorOrReload: return GetFileSystem(path, file_system), whatever
\* the reload returned
Reenter(t) ==
  /\ th[t].pc = "lc_ret" /\ th[t].purpose = "reload"
  /\ th[t].attempts < MaxAttempts
  /\ Set(t, [th[t] EXCEPT !.pc = "LoadCredential", !.flush = FALSE,
                          !.purpose = "resolve", !.attempts = @ + 1,
                          !.lstatus = "none"])
  /\ CredUnchanged
  /\ UNCHANGED <<s3Vars, restVars>>

\* the API function returns and its FileSystemManager is destroyed, and
\* with it the backend it holds
Return(t) ==
  /\ th[t].pc = "ret"
  /\ Set(t, IdleRec)
  /\ SetS3Static(ResetBackend(th[t].fs, "none"))
  /\ UNCHANGED restVars
  /\ CredUnchanged
  /\ UNCHANGED <<init_mu_, s3>>

CredInit ==
  /\ env \in Envs
  /\ mu_ = NoThread
  /\ is_credential_cached_ = FALSE
  /\ cred = [k \in Kinds |-> <<>>]
  /\ loadedDoc = "none"
  /\ parsesNoFlush = 0
  /\ th = [t \in Threads |-> IdleRec]

S3Init ==
  /\ init_mu_ = NoThread
  /\ init_count_ = 0
  /\ sdk = "down"
  /\ apiMisuse = FALSE
  /\ s3 = [t \in Threads |-> [pc |-> "none", live |-> 0, built |-> 0, old |-> 0,
                               clients |-> 0]]
  /\ apiLog = <<>>

NotCalled == [status |-> "none", credential |-> NoCred]

MatchIdle ==
  /\ table = <<>>
  /\ clean_path = <<>>
  /\ matched = NotCalled

\* use_count: the std::shared_ptr<LocalizedDirectory> copies that hold the
\* object the call has made; deletes: the DeleteDirectory calls of its
\* destructor; calls: the remote operations the call has made; written: the
\* local paths it has created; faulted: a remote or local operation of the
\* call failed for a reason outside the store (network, permissions, disk);
\* visits: the object paths the walk has taken up, in the order it did;
\* lists, reads: the list requests and the object read requests the walk has
\* sent to the store
LocIdle ==
  [ pc |-> "idle", tmp_folder |-> <<>>, contents |-> {}, tmp_contents |-> {},
    stack |-> <<>>, status |-> "none", use_count |-> 0, deletes |-> 0,
    calls |-> 0, written |-> {}, faulted |-> FALSE, visits |-> <<>>,
    lists |-> 0, reads |-> 0 ]

LocNotUsed ==
  /\ remote = {}
  /\ source = <<>>
  /\ localDirs = {}
  /\ localFiles = {}
  /\ loc = [t \in Threads |-> LocIdle]

NoProbe == [op |-> "none"]

ProbeIdle ==
  /\ bucket_exists = TRUE
  /\ probe = NoProbe

\* GOOGLE_APPLICATION_CREDENTIALS as the process was started
UserAdc == "adc"

GcsIdle ==
  /\ gac = UserAdc
  /\ env_mu_ = NoThread
  /\ gcs = [t \in Threads |-> [pc |-> "none", credential_path |-> "none",
                                client_ |-> "none"]]

Init == CredInit /\ S3Init /\ MatchIdle /\ LocNotUsed /\ ProbeIdle /\ GcsIdle

Next ==
  \/ EnvChange
  \/ \E t \in Threads :
       \/ Resolve(t)
       \/ LoadCached(t) \/ LoadNotConfigured(t) \/ LoadReadFails(t)
       \/ LoadBeginParse(t) \/ LoadClear(t) \/ LoadPush(t) \/ LoadSort(t)
       \/ LoadFinish(t)
       \/ LoadedGoMatch(t) \/ LoadedGoLegacy(t) \/ LoadedGoError(t)
       \/ Match(t) \/ Construct(t)
       \/ ReturnError(t) \/ Reload(t) \/ Reenter(t)
       \/ Return(t)

Spec == Init /\ [][Next]_vars

----------------------------------------------------------------------------
(* Claims about the credential cache and resolve(uri) *)

\* a thread's step out of ReturnErrorOrReload, and its LoadCredential call
\* taking mu_ and deciding what to do
Decides(t) == th[t].pc = "ReturnErrorOrReload" /\ th'[t] # th[t]
LoadStep(t) == th[t].pc = "LoadCredential" /\ th'[t].pc # "LoadCredential"

\* C1: when the load of resolve(uri) reported AlreadyCached and the match or
\* the client validation then failed, the factory forces one flush reload
\* (LoadCredential(true)) and retries the resolution.
C1_CachedFailureReloads ==
  [][\A t \in Threads :
       (Decides(t) /\ th[t].attempts = 1 /\ th[t].load_status = AlreadyExists)
         => /\ th'[t].pc = "LoadCredential"
            /\ th'[t].flush
            /\ th'[t].reloads = 1]_vars

\* C2: when the load of resolve(uri) freshly parsed the file (Loaded), a
\* NotFound from the match is returned at once, with no flush reload.
C2_FreshNotFoundReturns ==
  [][\A t \in Threads :
       (Decides(t) /\ th[t].load_status = Success /\ th[t].error_status = NotFound)
         => /\ th'[t].pc = "ret"
            /\ th'[t].result = NotFound
            /\ th'[t].reloads = 0]_vars

\* C3: a resolve(uri) makes at most two resolution attempts and forces at
\* most one reload, and is never left unable to go on: the re-entry after a
\* reload is always within the depth the model allows.
C3_BoundedRetry ==
  \A t \in Threads :
    /\ th[t].attempts <= 2
    /\ th[t].reloads <= 1
    /\ th[t].reloads <= th[t].attempts
    /\ (th[t].pc = "lc_ret" /\ th[t].purpose = "reload") => th[t].attempts = 1

C3_Witness ==
  \E t \in Threads :
    th[t].pc = "ret" /\ th[t].attempts = 2 /\ th[t].reloads = 1

\* C4: no thread runs the prefix-match scan of a table while another
\* thread's reload is rebuilding the tables (cleared, partly refilled or not
\* yet sorted): the scan is serialized with the rebuild by mu_.
C4_MatchNeverSeesRebuild ==
  [][\A t \in Threads :
       (th[t].pc = "match" /\ th'[t].pc # "match")
         => \A u \in Threads \ {t} : ~Parsing(u)]_vars

\* C6: once a parse has completed and while no parse is in progress, every
\* table holds exactly the members of its section of the parsed document,
\* in non-increasing order of name length.
C6_TablesSortedAfterParse ==
  (is_credential_cached_ /\ \A u \in Threads : ~Parsing(u))
    => \A k \in Kinds :
         /\ cred[k] \in Perms(Docs[loadedDoc][k])
         /\ IsSortedDesc(cred[k])

----------------------------------------------------------------------------
(* GetLongestMatchingCredential on its own: one call on a table that is    *)
(* in descending name length order, the names distinct as the member names *)
(* of one JSON object are.                                                 *)

MaxNameLen == 2
MaxEntries == 3
MaxPathLen == 3

Alphabet == {"a", "b"}

StringsUpTo(n) == UNION { [1..l -> Alphabet] : l \in 0..n }

\* the payload stored under a name: the text of its JSON value
PayloadOf(name) == <<"cred">> \o name

SortedTables ==
  { tb \in UNION { [1..l -> { E(nm, PayloadOf(nm)) : nm \in StringsUpTo(MaxNameLen) }]
                     : l \in 0..MaxEntries } :
      /\ \A i, j \in DOMAIN tb : i # j => tb[i].name # tb[j].name
      /\ IsSortedDesc(tb) }

MatchInit ==
  /\ CredInit /\ S3Init /\ LocNotUsed /\ ProbeIdle /\ GcsIdle
  /\ env = "unset"
  /\ table \in SortedTables
  /\ clean_path \in StringsUpTo(MaxPathLen)
  /\ matched = NotCalled

\* GetFileSystem: GetLongestMatchingCredential(xx_credential_, clean_path, ...)
CallMatch ==
  /\ matched.status = "none"
  /\ matched' = GetLongestMatchingCredential(table, clean_path)
  /\ UNCHANGED <<table, clean_path>>
  /\ UNCHANGED <<credVars, s3Vars, apiLog, locVars, probeVars, gcsVars>>

MatchNext == CallMatch

SpecMatch == MatchInit /\ [][MatchNext]_vars

\* the entries of the table whose name is a textual prefix of the path
PrefixEntries == { i \in DOMAIN table : StartsWith(clean_path, table[i].name) }

\* C5: on a table sorted by descending name length, the call returns the
\* payload of the entry with the longest name that is a prefix of the path,
\* never a shorter matching one, and NotFound iff no name is a prefix.
C5_LongestPrefixWins ==
  matched.status # "none" =>
    /\ matched.status = NotFound <=> PrefixEntries = {}
    /\ PrefixEntries # {} =>
         /\ matched.status = Success
         /\ \E i \in PrefixEntries :
              /\ matched.credential = table[i].cred
              /\ \A j \in PrefixEntries : Len(table[j].name) <= Len(table[i].name)

\* a call on a table where a shorter and a longer name both match
C5_Witness ==
  /\ matched.status # "none"
  /\ matched.status = Success
  /\ \E i, j \in PrefixEntries : Len(table[i].name) < Len(table[j].name)

----------------------------------------------------------------------------
(* S3FileSystem construction and destruction step by step: init_mu_ is     *)
(* taken, init_count_ is read, then written and tested, init_mu_ is        *)
(* released.  Each thread builds instances and destroys the ones it holds. *)

MaxBuilt == 2     \* instances a thread constructs in a behaviour

\* a constructor and a destructor that do not wait for init_mu_
InitMuAvailable_Always == TRUE

\* init_mu_.lock() / std::lock_guard<std::mutex> lock(init_mu_) can proceed
InitMuAvailable == init_mu_ = NoThread

SetS3(t, r) == s3' = [s3 EXCEPT ![t] = r]

S3Apply(st) ==
  /\ SetS3Static(st)
  /\ apiLog' = IF st.api = "none" THEN apiLog ELSE Append(apiLog, st.api)

\* new S3FileSystem(...): the constructor is entered
CtorBegin(t) ==
  /\ s3[t].pc = "none"
  /\ s3[t].built < MaxBuilt
  /\ SetS3(t, [s3[t] EXCEPT !.pc = "ctor_lock", !.built = @ + 1])
  /\ UNCHANGED <<init_mu_, init_count_, sdk, apiMisuse, apiLog>>
  /\ UNCHANGED <<credVars, matchVars, locVars, probeVars, gcsVars>>

\* init_mu_.lock()
CtorLock(t) ==
  /\ s3[t].pc = "ctor_lock"
  /\ InitMuAvailable
  /\ init_mu_' = t
  /\ SetS3(t, [s3[t] EXCEPT !.pc = "ctor_read"])
  /\ UNCHANGED <<init_count_, sdk, apiMisuse, apiLog>>
  /\ UNCHANGED <<credVars, matchVars, locVars, probeVars, gcsVars>>

\* init_count_++ : the value is read
CtorRead(t) ==
  /\ s3[t].pc = "ctor_read"
  /\ SetS3(t, [s3[t] EXCEPT !.pc = "ctor_write", !.old = init_count_])
  /\ UNCHANGED <<init_mu_, init_count_, sdk, apiMisuse, apiLog>>
  /\ UNCHANGED <<credVars, matchVars, locVars, probeVars, gcsVars>>

\* init_count_++ : the value is written; if (!old) Aws::InitAPI(options_)
CtorWrite(t) ==
  /\ s3[t].pc = "ctor_write"
  /\ S3Apply(CountedInit([S3Static EXCEPT !.count = s3[t].old]))
  /\ SetS3(t, [s3[t] EXCEPT !.pc = "ctor_unlock", !.old = 0, !.live = @ + 1])
  /\ UNCHANGED init_mu_
  /\ UNCHANGED <<credVars, matchVars, locVars, probeVars, gcsVars>>

\* init_mu_.unlock(), then the rest of the constructor:
\* client_.reset(new s3::S3Client(...))
CtorUnlock(t) ==
  /\ s3[t].pc = "ctor_unlock"
  /\ init_mu_' = IF init_mu_ = t THEN NoThread ELSE init_mu_
  /\ SetS3(t, [s3[t] EXCEPT !.pc = "none", !.clients = @ + 1])
  /\ UNCHANGED <<init_count_, sdk, apiMisuse, apiLog>>
  /\ UNCHANGED <<credVars, matchVars, locVars, probeVars, gcsVars>>

\* delete: ~S3FileSystem is entered on an instance the thread holds
DtorBegin(t) ==
  /\ s3[t].pc = "none"
  /\ s3[t].live > 0
  /\ SetS3(t, [s3[t] EXCEPT !.pc = "dtor_lock"])
  /\ UNCHANGED <<init_mu_, init_count_, sdk, apiMisuse, apiLog>>
  /\ UNCHANGED <<credVars, matchVars, locVars, probeVars, gcsVars>>

\* std::lock_guard<std::mutex> lock(init_mu_)
DtorLock(t) ==
  /\ s3[t].pc = "dtor_lock"
  /\ InitMuAvailable
  /\ init_mu_' = t
  /\ SetS3(t, [s3[t] EXCEPT !.pc = "dtor_read"])
  /\ UNCHANGED <<init_count_, sdk, apiMisuse, apiLog>>
  /\ UNCHANGED <<credVars, matchVars, locVars, probeVars, gcsVars>>

\* --init_count_ : the value is read
DtorRead(t) ==
  /\ s3[t].pc = "dtor_read"
  /\ SetS3(t, [s3[t] EXCEPT !.pc = "dtor_write", !.old = init_count_])
  /\ UNCHANGED <<init_mu_, init_count_, sdk, apiMisuse, apiLog>>
  /\ UNCHANGED <<credVars, matchVars, locVars, probeVars, gcsVars>>

\* --init_count_ : the value is written; if (!new) Aws::ShutdownAPI(options_)
DtorWrite(t) ==
  /\ s3[t].pc = "dtor_write"
  /\ S3Apply(CountedShutdown([S3Static EXCEPT !.count = s3[t].old]))
  /\ SetS3(t, [s3[t] EXCEPT !.pc = "dtor_unlock", !.old = 0, !.live = @ - 1])
  /\ UNCHANGED init_mu_
  /\ UNCHANGED <<credVars, matchVars, locVars, probeVars, gcsVars>>

\* the lock_guard goes out of scope: the body of ~S3FileSystem is over
DtorUnlock(t) ==
  /\ s3[t].pc = "dtor_unlock"
  /\ init_mu_' = IF init_mu_ = t THEN NoThread ELSE init_mu_
  /\ SetS3(t, [s3[t] EXCEPT !.pc = "dtor_members"])
  /\ UNCHANGED <<init_count_, sdk, apiMisuse, apiLog>>
  /\ UNCHANGED <<credVars, matchVars, locVars, probeVars, gcsVars>>

\* after the body the members are destroyed, client_ among them: the
\* std::unique_ptr<s3::S3Client> deletes the client
DtorMembers(t) ==
  /\ s3[t].pc = "dtor_members"
  /\ SetS3(t, [s3[t] EXCEPT !.pc = "none", !.clients = @ - 1])
  /\ UNCHANGED <<init_mu_, init_count_, sdk, apiMisuse, apiLog>>
  /\ UNCHANGED <<credVars, matchVars, locVars, probeVars, gcsVars>>

S3Next ==
  \E t \in Threads :
    \/ CtorBegin(t) \/ CtorLock(t) \/ CtorRead(t) \/ CtorWrite(t) \/ CtorUnlock(t)
    \/ DtorBegin(t) \/ DtorLock(t) \/ DtorRead(t) \/ DtorWrite(t) \/ DtorUnlock(t)
    \/ DtorMembers(t)

SpecS3 == Init /\ [][S3Next]_vars

RECURSIVE LiveInstances(_)
\* instances past the constructor's counted section whose destructor has
\* not run its own
LiveInstances(ts) ==
  IF ts = {} THEN 0
  ELSE LET t == CHOOSE u \in ts : TRUE
       IN  s3[t].live + LiveInstances(ts \ {t})

ApiAlternates ==
  \A i \in DOMAIN apiLog :
    apiLog[i] = IF i % 2 = 1 THEN "InitAPI" ELSE "ShutdownAPI"

\* C8: InitAPI and ShutdownAPI strictly alternate starting with InitAPI;
\* InitAPI is called exactly on the step that takes init_count_ from 0 to 1
\* and ShutdownAPI exactly on the step that takes it from 1 to 0; init_count_
\* is the number of instances past the constructor's counted section whose
\* destructor has not run; the SDK is initialized whenever init_count_ > 0.
C8_SdkLifecycle ==
  /\ [](/\ ApiAlternates
        /\ init_count_ = LiveInstances(Threads)
        /\ init_count_ > 0 => sdk = "up")
  /\ [][/\ (init_count_ = 0 /\ init_count_' = 1)
             <=> (apiLog' # apiLog /\ apiLog'[Len(apiLog')] = "InitAPI")
        /\ (init_count_ = 1 /\ init_count_' = 0)
             <=> (apiLog' # apiLog /\ apiLog'[Len(apiLog')] = "ShutdownAPI")]_vars

\* the SDK has been shut down and initialized again, and one thread is in
\* a constructor waiting for init_mu_ while the other holds it in a destructor
C8_Witness ==
  /\ Len(apiLog) >= 3
  /\ \E t, u \in Threads :
       /\ s3[t].pc = "ctor_lock"
       /\ s3[u].pc = "dtor_write"
       /\ init_mu_ = u

----------------------------------------------------------------------------
(* The object stores as the backends see them.  A bucket / container is    *)
(* the set of its keys; the data of an object is identified by its key.    *)

ListMaxKeys == 3   \* keys in one S3 ListObjects response (1000 at the service)

RECURSIVE FirstKeys(_, _)
\* the first n keys of S in key order
FirstKeys(S, n) ==
  IF n = 0 \/ S = {} THEN {}
  ELSE LET a == First(S) IN {a} \cup FirstKeys(S \ {a}, n - 1)

KeysWithPrefix(prefix) == { k \in remote : StartsWith(k, prefix) }

\* client_->ListObjects(bucket, gcs::Prefix(prefix)): the range pages through
\* every key with the prefix
GcsListObjects(prefix) == KeysWithPrefix(prefix)

\* client_->ListObjects(request): one response, whose GetContents() is read;
\* IsTruncated and the marker are not looked at
S3ListObjects(prefix) == FirstKeys(KeysWithPrefix(prefix), ListMaxKeys)

\* bc.list_blobs_segmented(container, "/", "", prefix): blobs right under the
\* prefix, and one is_directory item per "/"-delimited group below it
AsListBlobs(prefix) ==
  { LET rest  == SubstrFrom(k, Len(prefix))
        delim == Find(rest, <<"/">>, 0)
    IN  IF delim = Npos
          THEN [name |-> k, is_directory |-> FALSE]
          ELSE [name |-> prefix \o Substr(rest, 0, delim + 1),
                is_directory |-> TRUE]
    : k \in KeysWithPrefix(prefix) }

\* GCSFileSystem::ParsePath, and the branch of S3FileSystem::ParsePath taken
\* when s3_regex_ (which wants host:port) does not match
SchemeParsePath(p, scheme) ==
  LET bucket_start == Find(p, scheme, 0) + Len(scheme)
      bucket_end   == Find(p, <<"/">>, bucket_start)
      bucket == IF bucket_end > bucket_start
                  THEN Substr(p, bucket_start, bucket_end - bucket_start)
                  ELSE SubstrFrom(p, bucket_start)
      object == IF bucket_end > bucket_start
                  THEN SubstrFrom(p, bucket_end + 1)
                  ELSE <<>>
  IN  [ok |-> bucket # <<>>, bucket |-> bucket, object |-> object]

RECURSIVE SqueezeSlashes(_, _, _)
\* CleanPath: "Remove extra internal slashes"
SqueezeSlashes(true_path, i, previous_slash) ==
  IF i > Len(true_path) THEN <<>>
  ELSE IF true_path[i] = "/"
    THEN (IF previous_slash THEN <<>> ELSE <<"/">>)
           \o SqueezeSlashes(true_path, i + 1, TRUE)
    ELSE <<true_path[i]>> \o SqueezeSlashes(true_path, i + 1, FALSE)

\* S3FileSystem::CleanPath, for paths with no http:// or https:// in them
CleanPath(s3_path) ==
  LET start == Find(s3_path, Scheme("s3"), 0)
      rest  == IF start # Npos
                 THEN SubstrFrom(s3_path, start + Len(Scheme("s3")))
                 ELSE s3_path
      head  == IF start # Npos THEN Scheme("s3") ELSE <<>>
      notSlash == { i \in 0..(Len(rest) - 1) : rest[i + 1] # "/" }
  IN  IF notSlash = {}
        THEN [ok |-> FALSE, clean_path |-> head]
        ELSE LET rtrim_length == CHOOSE i \in notSlash : \A j \in notSlash : j <= i
                 ltrim_length == CHOOSE i \in notSlash : \A j \in notSlash : i <= j
             IN  [ok |-> TRUE,
                  clean_path |-> head \o
                    SqueezeSlashes(Substr(rest, ltrim_length, rtrim_length + 1),
                                   1, FALSE)]

S3ParsePath(p) ==
  LET c == CleanPath(p)
  IN  IF c.ok THEN SchemeParsePath(c.clean_path, Scheme("s3"))
      ELSE [ok |-> FALSE, bucket |-> <<>>, object |-> <<>>]

\* ASFileSystem::ParsePath: FullMatch of
\* as://([^/]+)/([^/?]+)(?:/([^?]*))?(\?.*)? on a path with no '?' in it
AsParsePath(p) ==
  LET rest  == SubstrFrom(p, Len(Scheme("as")))
      hostEnd == Find(rest, <<"/">>, 0)
      after == SubstrFrom(rest, hostEnd + 1)
      contEnd == Find(after, <<"/">>, 0)
      container == IF contEnd = Npos THEN after ELSE Substr(after, 0, contEnd)
      object == IF contEnd = Npos THEN <<>> ELSE SubstrFrom(after, contEnd + 1)
  IN  IF StartsWith(p, Scheme("as")) /\ hostEnd > 0 /\ container # <<>>
        THEN [ok |-> TRUE, bucket |-> container, object |-> object]
        ELSE [ok |-> FALSE, bucket |-> <<>>, object |-> <<>>]

ParsePath(k, p) ==
  CASE k = "gs" -> SchemeParsePath(p, Scheme("gs"))
    [] k = "s3" -> S3ParsePath(p)
    [] k = "as" -> AsParsePath(p)

\* IsDirectory of each backend, the bucket / container existing
IsDirectory(k, p) ==
  LET object_path == ParsePath(k, p).object
  IN  CASE k = "gs" -> object_path = <<>>
                         \/ GcsListObjects(AppendSlash(object_path)) # {}
        [] k = "s3" -> object_path = <<>>
                         \/ S3ListObjects(AppendSlash(object_path)) # {}
        [] k = "as" -> AsListBlobs(object_path) # {}

\* FileExists of each backend
FileExists(k, p) ==
  LET object == ParsePath(k, p).object
  IN  CASE k = "gs" -> object \in remote \/ IsDirectory(k, p)
        [] k = "s3" -> IsDirectory(k, p) \/ object \in remote
        [] k = "as" -> AsListBlobs(object) # {}

\* the child name cut out of a listed name
ItemOf(name, full_dir) ==
  LET item_start == Find(name, full_dir, 0) + Len(full_dir)
      item_end   == Find(name, <<"/">>, item_start)
  IN  Substr(name, item_start, item_end - item_start)

\* ASFileSystem::ListDirectory: the items func is called with, each with the
\* subfile it is given
AsListDirectory(dir_path) ==
  LET full_dir == AppendSlash(dir_path)
  IN  { [name |-> item.name, is_directory |-> item.is_directory,
         subfile |-> ItemOf(item.name, full_dir)] : item \in AsListBlobs(full_dir) }

\* GetDirectoryContents of GCSFileSystem and S3FileSystem, which skip the
\* key equal to full_dir, and of ASFileSystem, whose func inserts the subfile
\* of every item
GetDirectoryContents(k, p) ==
  LET full_dir == AppendSlash(ParsePath(k, p).object)
      listed   == IF k = "gs" THEN GcsListObjects(full_dir)
                  ELSE S3ListObjects(full_dir)
  IN  IF k = "as"
        THEN { item.subfile : item \in AsListDirectory(ParsePath(k, p).object) }
        ELSE { ItemOf(name, full_dir) : name \in listed \ {full_dir} }

----------------------------------------------------------------------------
(* The local filesystem *)

RECURSIVE Normal(_, _)
\* the path the kernel resolves p to: repeated and trailing slashes dropped
Normal(p, i) ==
  IF i > Len(p) THEN <<>>
  ELSE IF p[i] = "/" /\ i > 1 /\ (i = Len(p) \/ p[i + 1] = "/")
    THEN Normal(p, i + 1)
    ELSE <<p[i]>> \o Normal(p, i + 1)

Root == <<"/">>

Parent(n) ==
  LET slashes == { i \in 1..Len(n) : n[i] = "/" }
      last == CHOOSE i \in slashes : \A j \in slashes : j <= i
  IN  IF last = 1 THEN Root ELSE SubSeq(n, 1, last - 1)

FilePaths == { f.path : f \in localFiles }

\* p is strictly below directory d
Under(p, d) == StartsWith(p, d \o <<"/">>)

\* mkdir(p, mode) returns 0
MkdirOk(p) ==
  LET n == Normal(p, 1)
  IN  n \notin localDirs /\ n \notin FilePaths /\ Parent(n) \in localDirs

\* std::ofstream(p, std::ios::binary) opens
OpenOk(p) ==
  LET n == Normal(p, 1)
  IN  p[Len(p)] # "/" /\ n \notin localDirs /\ Parent(n) \in localDirs

\* the files after data is written to p (nothing changes when the open fails)
Written(p, data) ==
  IF OpenOk(p)
    THEN { f \in localFiles : f.path # Normal(p, 1) }
           \cup { [path |-> Normal(p, 1), data |-> data] }
    ELSE localFiles

TmpDir == <<"/", "t", "m", "p">>

\* "/tmp/folderXXXXXX"
FolderTemplate == TmpDir \o <<"/", "f", "o", "l", "d", "e", "r">>

\* what mkdtemp may put in the place of XXXXXX
TempSuffixes == { <<"1">>, <<"2">>, <<"3">> }

\* a mkdtemp that takes a name whether or not it exists
FreshTempNames_Any == { FolderTemplate \o x : x \in TempSuffixes }

\* mkdtemp: the names that do not exist yet; it creates one of them
FreshTempNames ==
  { n \in { FolderTemplate \o x : x \in TempSuffixes } :
      n \notin localDirs /\ n \notin FilePaths }

----------------------------------------------------------------------------
(* LocalizeDirectory of the GCS, S3 and Azure backends: two threads call   *)
(* it on the same source, and each later drops the LocalizedDirectory it   *)
(* was given.                                                              *)

Stores ==
  { \* files a and b and a subdirectory c holding d; da and x/a are outside d/
    { <<"d", "/", "a">>, <<"d", "/", "b">>, <<"d", "/", "c", "/", "d">>,
      <<"d", "a">>, <<"x", "/", "a">> },
    \* the same with one more file
    { <<"d", "/", "a">>, <<"d", "/", "b">>, <<"d", "/", "c", "/", "d">>,
      <<"d", "/", "e">> },
    \* marker objects: d/ itself and an empty subdirectory c
    { <<"d", "/">>, <<"d", "/", "a">>, <<"d", "/", "c", "/">> },
    \* d/c is an object and a prefix of another object's key
    { <<"d", "/", "c">>, <<"d", "/", "c", "/", "d">> },
    \* nothing at d
    { <<"x", "/", "a">> } }

\* a directory of the local filesystem and the file in it
ModelDir  == <<"/", "m">>
ModelFile == [path |-> ModelDir \o <<"/", "a">>, data |-> <<"m">>]

\* local paths: a directory, a file, a path at which there is nothing
LocalSources == { ModelDir, ModelFile.path, <<"/", "x">> }

Sources ==
  LET d == { <<"d">>, <<"d", "/">> }
  IN  { Scheme("gs") \o <<"b", "/">> \o x : x \in d }
        \cup { Scheme("s3") \o <<"b", "/">> \o x : x \in d }
        \cup { Scheme("as") \o <<"h", "/", "c", "/">> \o x : x \in d }
        \cup LocalSources

\* a directory and a file left in /tmp by an earlier run
StaleDir  == FolderTemplate \o <<"1">>
StaleFile == [path |-> StaleDir \o <<"/", "a">>, data |-> <<"x">>]

LocInit ==
  /\ CredInit /\ S3Init /\ MatchIdle /\ ProbeIdle /\ GcsIdle
  /\ env = "unset"
  /\ remote \in Stores
  /\ source \in Sources
  /\ localDirs = {Root, TmpDir, StaleDir, ModelDir}
  /\ localFiles = {StaleFile, ModelFile}
  /\ loc = [t \in Threads |-> LocIdle]

SetLoc(t, r) == loc' = [loc EXCEPT ![t] = r]

\* a failure that is recorded while the call goes on
Fail_GoOn(r) == [r EXCEPT !.status = Internal]

\* return Status(Status::Code::INTERNAL, ...) and RETURN_IF_ERROR
Fail(r) == [r EXCEPT !.pc = "ret", !.status = Internal,
                     !.contents = {}, !.tmp_contents = {}, !.stack = <<>>]

Succeed(r) == [r EXCEPT !.pc = "ret", !.status = Success,
                        !.contents = {}, !.tmp_contents = {}, !.stack = <<>>]

LocOthersUnchanged ==
  UNCHANGED <<credVars, s3Vars, matchVars, apiLog, probeVars, gcsVars>>

\* LocalizeDirectory: FileExists, IsDirectory, "directory does not exist at"
CheckSource(t) ==
  /\ loc[t].pc = "idle"
  /\ UriKind(source) \in Kinds
  /\ LET k == UriKind(source)
     IN  IF /\ ParsePath(k, source).ok
            /\ FileExists(k, source)
            /\ IsDirectory(k, source)
           THEN SetLoc(t, [loc[t] EXCEPT !.pc = "mkdtemp", !.calls = @ + 2])
           ELSE SetLoc(t, Fail([loc[t] EXCEPT !.calls = @ + 2]))
  /\ UNCHANGED <<remote, source, localDirs, localFiles>>
  /\ LocOthersUnchanged

\* a LocalizedDirectory constructed with local_path_ set to the source path
LocalizedInPlace_Owned(p) == p

\* new LocalizedDirectory(path): the one-argument constructor leaves
\* local_path_ empty
LocalizedInPlace(p) == <<>>

\* LocalFileSystem::LocalizeDirectory: the directory is used in place
LocalLocalize(t) ==
  /\ loc[t].pc = "idle"
  /\ UriKind(source) = "local"
  /\ SetLoc(t, [Succeed(loc[t]) EXCEPT !.tmp_folder = LocalizedInPlace(source),
                                       !.use_count = 1])
  /\ UNCHANGED <<remote, source, localDirs, localFiles>>
  /\ LocOthersUnchanged

\* a localize that makes the temp directory and hands no LocalizedDirectory
\* to the caller before it walks
MakeTemporaryDirectory_NotOwned(t) ==
  /\ loc[t].pc = "mkdtemp"
  /\ IF FreshTempNames = {}
       THEN /\ SetLoc(t, Fail(loc[t]))
            /\ UNCHANGED localDirs
       ELSE \E res \in FreshTempNames :
              /\ localDirs' = localDirs \cup {res}
              /\ SetLoc(t, [loc[t] EXCEPT
                   !.pc = IF UriKind(source) = "as" THEN "DownloadFolder"
                          ELSE "GetDirectoryContents",
                   !.tmp_folder = res])
  /\ UNCHANGED <<remote, source, localFiles>>
  /\ LocOthersUnchanged

\* LocalFileSystem::MakeTemporaryDirectory (GCS, S3) and the mkdtemp call of
\* ASFileSystem::LocalizeDirectory; localized->reset(new LocalizedDirectory)
MakeTemporaryDirectory(t) ==
  /\ loc[t].pc = "mkdtemp"
  /\ IF FreshTempNames = {}
       THEN /\ SetLoc(t, Fail(loc[t]))
            /\ UNCHANGED localDirs
       ELSE \E res \in FreshTempNames :
              /\ localDirs' = localDirs \cup {res}
              /\ SetLoc(t, [loc[t] EXCEPT
                   !.pc = IF UriKind(source) = "as" THEN "DownloadFolder"
                          ELSE "GetDirectoryContents",
                   !.tmp_folder = res,
                   !.use_count = 1])
  /\ UNCHANGED <<remote, source, localFiles>>
  /\ LocOthersUnchanged

\* a step of the walk has failed for a reason outside the store
Faulted(r) == [r EXCEPT !.faulted = TRUE]

\* RETURN_IF_ERROR(GetDirectoryContents(path, &filenames));
\* contents.insert(JoinPath({path, *itr}))
ListSource(t) ==
  /\ loc[t].pc = "GetDirectoryContents"
  /\ \E listed \in BOOLEAN :
       IF listed
         THEN SetLoc(t, [loc[t] EXCEPT
                !.pc = "while",
                !.calls = @ + 1, !.lists = @ + 1,
                !.contents = { JoinPath(<<source, item>>) :
                     item \in GetDirectoryContents(UriKind(source), source) }])
         ELSE SetLoc(t, Fail(Faulted([loc[t] EXCEPT !.calls = @ + 1,
                                                     !.lists = @ + 1])))
  /\ UNCHANGED <<remote, source, localDirs, localFiles>>
  /\ LocOthersUnchanged

\* while (contents.size() != 0) { tmp_contents = contents; contents.clear();
NextLevel(t) ==
  /\ loc[t].pc = "while"
  /\ IF loc[t].contents = {}
       THEN SetLoc(t, Succeed(loc[t]))
       ELSE SetLoc(t, [loc[t] EXCEPT !.pc = "for",
                                     !.tmp_contents = loc[t].contents,
                                     !.contents = {}])
  /\ UNCHANGED <<remote, source, localDirs, localFiles>>
  /\ LocOthersUnchanged

\* the local path of a remote path of the walk:
\* JoinPath({(*localized)->Path(), fpath.substr(path.size())})
LocalPathOf(t, fpath) ==
  JoinPath(<<loc[t].tmp_folder, SubstrFrom(fpath, Len(source))>>)

\* for (auto iter = tmp_contents.begin(); ...): the loop body is entered
\* for fpath
Visiting(r, fpath) ==
  [r EXCEPT !.visits = Append(@, ParsePath(UriKind(source), fpath).object)]

AfterVisit(r, fpath) ==
  [r EXCEPT !.tmp_contents = @ \ {fpath},
            !.pc = IF r.tmp_contents = {fpath} THEN "while" ELSE "for"]

\* what IsDirectory(fpath, &is_subdir) can leave in is_subdir when it returns
\* success: GCSFileSystem::IsDirectory skips a failed ListObjects item and
\* says "not a directory"; S3FileSystem::IsDirectory returns the error
ProbeResults(k, fpath) ==
  {IsDirectory(k, fpath)} \cup (IF k = "gs" THEN {FALSE} ELSE {})

\* RETURN_IF_ERROR(IsDirectory(fpath, &is_subdir)): the bucket metadata
\* request, or the S3 listing, fails
ProbeFails(t) ==
  /\ loc[t].pc = "for"
  /\ SetLoc(t, Fail(Faulted([Visiting(loc[t], First(loc[t].tmp_contents))
                               EXCEPT !.calls = @ + 1])))
  /\ UNCHANGED <<remote, source, localDirs, localFiles>>
  /\ LocOthersUnchanged

\* the loop body for a path that IsDirectory: mkdir, then its children
VisitDirectory(t) ==
  /\ loc[t].pc = "for"
  /\ LET k == UriKind(source)
         fpath == First(loc[t].tmp_contents)
         local_fpath == LocalPathOf(t, fpath)
     IN  \E is_subdir \in ProbeResults(k, fpath), made, listed \in BOOLEAN :
           /\ is_subdir
           /\ IF made /\ MkdirOk(local_fpath)
                THEN /\ localDirs' = localDirs \cup {Normal(local_fpath, 1)}
                     /\ LET r == [Visiting(loc[t], fpath) EXCEPT
                                   !.calls = @ + 2, !.lists = @ + 2,
                                   !.written = @ \cup {Normal(local_fpath, 1)}]
                        IN  IF listed
                              THEN SetLoc(t, [AfterVisit(r, fpath) EXCEPT
                                     !.contents = @ \cup
                                       { JoinPath(<<fpath, item>>) :
                                           item \in GetDirectoryContents(k, fpath) }])
                              ELSE SetLoc(t, Fail(Faulted(r)))
                ELSE /\ UNCHANGED localDirs
                     /\ SetLoc(t, Fail([Visiting(loc[t], fpath) EXCEPT
                          !.calls = @ + 1, !.lists = @ + 1,
                          !.faulted = @ \/ MkdirOk(local_fpath)]))
  /\ UNCHANGED <<remote, source, localFiles>>
  /\ LocOthersUnchanged

\* the loop body for any other path: read the object, write the file
VisitFile(t) ==
  /\ loc[t].pc = "for"
  /\ LET k == UriKind(source)
         fpath == First(loc[t].tmp_contents)
         file_object == ParsePath(k, fpath).object
         local_file_path == LocalPathOf(t, fpath)
     IN  \E is_subdir \in ProbeResults(k, fpath), read \in BOOLEAN :
           /\ ~is_subdir
           /\ LET r == [Visiting(loc[t], fpath) EXCEPT
                         !.calls = @ + 2, !.lists = @ + 1, !.reads = @ + 1,
                         !.faulted = @ \/ IsDirectory(k, fpath)]
              IN  IF read /\ ParsePath(k, fpath).ok /\ file_object \in remote
                    THEN /\ localFiles' = Written(local_file_path, file_object)
                         /\ SetLoc(t, [AfterVisit(r, fpath) EXCEPT
                              !.written = @ \cup
                                (IF OpenOk(local_file_path)
                                   THEN {Normal(local_file_path, 1)} ELSE {})])
                    ELSE /\ UNCHANGED localFiles
                         /\ SetLoc(t, Fail([r EXCEPT !.faulted =
                              @ \/ (ParsePath(k, fpath).ok /\ file_object \in remote)]))
  /\ UNCHANGED <<remote, source, localDirs>>
  /\ LocOthersUnchanged

Frame(blob_path, dest) ==
  [path |-> blob_path, dest |-> dest, items |-> AsListDirectory(blob_path)]

Top(r) == r.stack[Len(r.stack)]

\* the item ListDirectory hands to func next
NextItem(items) ==
  CHOOSE i \in items : \A j \in items \ {i} : StrLess(i.name, j.name)

Pushed(r, item, frame) ==
  [r EXCEPT !.calls = @ + 1, !.lists = @ + 1,
            !.visits = Append(@, frame.path),
            !.written = @ \cup {Normal(frame.dest, 1)},
            !.stack = Append([@ EXCEPT ![Len(@)].items = @ \ {item}], frame)]

Consumed(r, item, local_path) ==
  [r EXCEPT !.calls = @ + 1, !.reads = @ + 1,
            !.visits = Append(@, JoinPath(<<Top(r).path, item.subfile>>)),
            !.written = @ \cup {Normal(local_path, 1)},
            !.stack = [@ EXCEPT ![Len(@)].items = @ \ {item}]]

\* ASFileSystem::LocalizeDirectory: ParsePath; DownloadFolder(container, object, dest)
AsBegin(t) ==
  /\ loc[t].pc = "DownloadFolder"
  /\ loc[t].stack = <<>>
  /\ SetLoc(t, [loc[t] EXCEPT
       !.calls = @ + 1, !.lists = @ + 1,
       !.stack = <<Frame(ParsePath("as", source).object, loc[t].tmp_folder)>>])
  /\ UNCHANGED <<remote, source, localDirs, localFiles>>
  /\ LocOthersUnchanged

\* DownloadFolder, item.is_directory: mkdir and DownloadFolder of the item
AsEnterDirectory(t) ==
  /\ loc[t].pc = "DownloadFolder"
  /\ loc[t].stack # <<>>
  /\ Top(loc[t]).items # {}
  /\ LET item == NextItem(Top(loc[t]).items)
         local_path == JoinPath(<<Top(loc[t]).dest, item.subfile>>)
         blob_path  == JoinPath(<<Top(loc[t]).path, item.subfile>>)
     IN  /\ item.is_directory
         /\ IF MkdirOk(local_path)
              THEN /\ localDirs' = localDirs \cup {Normal(local_path, 1)}
                   /\ SetLoc(t, Pushed(loc[t], item, Frame(blob_path, local_path)))
              ELSE /\ UNCHANGED localDirs
                   /\ SetLoc(t, Fail([loc[t] EXCEPT
                        !.visits = Append(@, blob_path)]))
  /\ UNCHANGED <<remote, source, localFiles>>
  /\ LocOthersUnchanged

\* DownloadFolder, a blob: bc.download_blob_to_file(container, blob_path, local_path)
AsDownloadFile(t) ==
  /\ loc[t].pc = "DownloadFolder"
  /\ loc[t].stack # <<>>
  /\ Top(loc[t]).items # {}
  /\ LET item == NextItem(Top(loc[t]).items)
         local_path == JoinPath(<<Top(loc[t]).dest, item.subfile>>)
         blob_path  == JoinPath(<<Top(loc[t]).path, item.subfile>>)
     IN  /\ ~item.is_directory
         /\ IF blob_path \in remote /\ OpenOk(local_path)
              THEN /\ localFiles' = Written(local_path, blob_path)
                   /\ SetLoc(t, Consumed(loc[t], item, local_path))
              ELSE /\ UNCHANGED localFiles
                   /\ SetLoc(t, Fail([loc[t] EXCEPT
                        !.visits = Append(@, blob_path)]))
  /\ UNCHANGED <<remote, source, localDirs>>
  /\ LocOthersUnchanged

\* ListDirectory has called func on every item: DownloadFolder returns
AsReturn(t) ==
  /\ loc[t].pc = "DownloadFolder"
  /\ loc[t].stack # <<>>
  /\ Top(loc[t]).items = {}
  /\ IF Len(loc[t].stack) = 1
       THEN SetLoc(t, Succeed(loc[t]))
       ELSE SetLoc(t, [loc[t] EXCEPT !.stack = SubSeq(@, 1, Len(@) - 1)])
  /\ UNCHANGED <<remote, source, localDirs, localFiles>>
  /\ LocOthersUnchanged

\* LocalFileSystem::GetDirectoryContents: the entries of p other than . and ..
LocalDirectoryContents(p, fs) ==
  { SubstrFrom(q, Len(p) + 1) :
      q \in { c \in fs.dirs \cup { f.path : f \in fs.files } :
                c # p /\ Parent(c) = p } }

RECURSIVE DeleteDirectory(_, _), DeleteContents(_, _, _)
\* the loop of DeleteDirectory over contents, in the order of the std::set
DeleteContents(p, contents, fs) ==
  IF contents = {} THEN [fs EXCEPT !.ok = TRUE]
  ELSE LET content == First(contents)
           full_path == JoinPath(<<p, content>>)
       IN  IF full_path \in fs.dirs
             THEN DeleteContents(p, contents \ {content},
                                 DeleteDirectory(full_path, fs))
           ELSE IF full_path \in { f.path : f \in fs.files }
             THEN DeleteContents(p, contents \ {content},
                    [fs EXCEPT !.files = { f \in @ : f.path # full_path }])
           ELSE [fs EXCEPT !.ok = FALSE]   \* stat fails: RETURN_IF_ERROR

\* LocalFileSystem::DeleteDirectory on the local filesystem fs: the contents
\* first, then rmdir, which removes p only when it is empty
DeleteDirectory(p, fs) ==
  IF p \notin fs.dirs THEN [fs EXCEPT !.ok = FALSE]   \* opendir fails
  ELSE LET emptied == DeleteContents(p, LocalDirectoryContents(p, fs), fs)
       IN  IF emptied.ok /\ LocalDirectoryContents(p, emptied) = {}
             THEN [emptied EXCEPT !.dirs = @ \ {p}]
             ELSE emptied

MaxHolders == 2   \* the copies of one shared_ptr the model lets callers make

\* a release that runs the destructor whatever the use count is
LastHolder_Any(r) == r.use_count >= 1

\* std::shared_ptr: the release that brings use_count to 0 destroys the object
LastHolder(r) == r.use_count = 1

\* a caller copies the shared_ptr it was given
Share(t) ==
  /\ loc[t].pc = "ret"
  /\ loc[t].use_count \in 1..(MaxHolders - 1)
  /\ SetLoc(t, [loc[t] EXCEPT !.use_count = @ + 1])
  /\ UNCHANGED <<remote, source, localDirs, localFiles>>
  /\ LocOthersUnchanged

\* a holder drops its shared_ptr; for the last holder ~LocalizedDirectory
\* runs: DeleteDirectory(local_path_) when local_path_ is not empty
Release(t) ==
  /\ loc[t].pc = "ret"
  /\ LET r == loc[t]
         destroys == LastHolder(r)
         deletes == destroys /\ r.tmp_folder # <<>>
         fs == DeleteDirectory(r.tmp_folder,
                 [dirs |-> localDirs, files |-> localFiles, ok |-> TRUE])
     IN  /\ localDirs' = IF deletes THEN fs.dirs ELSE localDirs
         /\ localFiles' = IF deletes THEN fs.files ELSE localFiles
         /\ SetLoc(t, [r EXCEPT
              !.use_count = IF @ = 0 THEN 0 ELSE @ - 1,
              !.deletes = IF deletes THEN @ + 1 ELSE @,
              !.pc = IF r.use_count <= 1 THEN "released" ELSE "ret"])
  /\ UNCHANGED <<remote, source>>
  /\ LocOthersUnchanged

LocNext ==
  \E t \in Threads :
    \/ LocalLocalize(t)
    \/ CheckSource(t) \/ MakeTemporaryDirectory(t)
    \/ ListSource(t) \/ NextLevel(t)
    \/ ProbeFails(t) \/ VisitDirectory(t) \/ VisitFile(t)
    \/ AsBegin(t) \/ AsEnterDirectory(t) \/ AsDownloadFile(t) \/ AsReturn(t)
    \/ Share(t) \/ Release(t)

SpecLoc == LocInit /\ [][LocNext]_vars

----------------------------------------------------------------------------
(* Claims about LocalizeDirectory *)

\* the key prefix of everything below the source
SourcePrefix == AppendSlash(ParsePath(UriKind(source), source).object)

\* the objects below the source, the source's own marker left out
Below == { k \in remote : StartsWith(k, SourcePrefix) /\ k # SourcePrefix }

Rel(k) == SubstrFrom(k, Len(SourcePrefix))

\* a marker object stands for a directory, not for a file
IsMarker(k) == k[Len(k)] = "/"

\* the pseudo-directories on the way to relative path r
DirPrefixes(r) == { SubSeq(r, 1, i - 1) : i \in { j \in 1..Len(r) : r[j] = "/" } }

MirrorFiles(tmp) ==
  { [path |-> tmp \o <<"/">> \o Rel(k), data |-> k] :
      k \in { b \in Below : ~IsMarker(b) } }

MirrorDirs(tmp) ==
  { tmp \o <<"/">> \o d : d \in UNION { DirPrefixes(Rel(k)) : k \in Below } }

\* the source is a directory tree: something is below it, no key is also a
\* directory on the way to another key, and there are no marker objects
SourceIsTree ==
  /\ UriKind(source) \in Kinds
  /\ Below # {}
  /\ \A k \in Below :
       /\ ~IsMarker(k)
       /\ \A k2 \in Below : ~StartsWith(k2, k \o <<"/">>)

\* thread t has a temporary directory that it has not deleted yet
Owns(t) == loc[t].tmp_folder # <<>> /\ loc[t].pc # "released"

\* the local paths a step creates, writes or deletes
Touched ==
  { d \in localDirs \cup localDirs' : ~(d \in localDirs /\ d \in localDirs') }
    \cup { f.path : f \in { g \in localFiles \cup localFiles' :
                              ~(g \in localFiles /\ g \in localFiles') } }

C10_ExactMirror ==
  \A t \in Threads :
    (/\ loc[t].pc = "ret" /\ loc[t].status = Success
     /\ loc[t].tmp_folder # <<>> /\ ~loc[t].faulted) =>
      /\ { f \in localFiles : Under(f.path, loc[t].tmp_folder) }
           = MirrorFiles(loc[t].tmp_folder)
      /\ { d \in localDirs : Under(d, loc[t].tmp_folder) }
           = MirrorDirs(loc[t].tmp_folder)

\* what is at or under the temp root of thread t on the local filesystem
TempTree(t, dirs, files) ==
  { d \in dirs : d = loc[t].tmp_folder \/ Under(d, loc[t].tmp_folder) }
    \cup { f.path : f \in { g \in files : Under(g.path, loc[t].tmp_folder) } }

\* C11: for a LocalizedDirectory with a local temp path the recursive delete
\* runs at most once, and only in the step in which the last holder releases
\* it; while a holder references it nothing has been deleted and the temp
\* root exists; the last release runs the delete whether the localize that
\* made it returned success or an error, and when that step is over neither
\* the temp root nor anything under it exists.
C11_DeleteOnceAtLastRelease ==
  /\ [](\A t \in Threads :
          /\ loc[t].deletes <= 1
          /\ (loc[t].use_count >= 1 /\ loc[t].tmp_folder # <<>>) =>
                /\ loc[t].deletes = 0
                /\ loc[t].tmp_folder \in localDirs
          /\ (loc[t].pc = "released" /\ loc[t].tmp_folder # <<>>) =>
                loc[t].deletes = 1)
  /\ [][\A t \in Threads :
          /\ loc'[t].deletes # loc[t].deletes =>
                /\ loc[t].use_count = 1 /\ loc'[t].use_count = 0
                /\ loc'[t].deletes = loc[t].deletes + 1
          /\ (/\ loc[t].use_count = 1 /\ loc'[t].use_count = 0
              /\ loc[t].tmp_folder # <<>>) =>
                /\ loc'[t].deletes = 1
                /\ loc[t].status \in {Success, Internal}
                /\ TempTree(t, localDirs', localFiles') = {}]_vars

\* a tree that a failed walk left behind has been deleted by its last holder
\* while the other call's tree, populated, is still held by two holders
C11_Witness ==
  \E t, u \in Threads :
    /\ loc[t].pc = "released" /\ loc[t].status = Internal
    /\ loc[t].deletes = 1 /\ loc[t].tmp_folder \notin localDirs
    /\ loc[u].pc = "ret" /\ loc[u].use_count = 2
    /\ \E f \in localFiles : Under(f.path, loc[u].tmp_folder)

\* C12: localize on a local path returns success and a resource without a
\* local temp path, and no step of the call, of a copy of the resource or of
\* its release creates, writes or deletes a directory or a file: the source
\* directory and its content stay as they were.
C12_LocalUsedInPlace ==
  /\ [](UriKind(source) = "local" =>
          \A t \in Threads :
            /\ loc[t].tmp_folder = <<>> /\ loc[t].deletes = 0
            /\ loc[t].pc \in {"ret", "released"} => loc[t].status = Success
            /\ ModelDir \in localDirs /\ ModelFile \in localFiles)
  /\ [][UriKind(source) = "local" => UNCHANGED <<localDirs, localFiles>>]_vars

\* the local directory has been localized and the last holder has released it
C12_Witness ==
  /\ source = ModelDir
  /\ \E t \in Threads : loc[t].pc = "released" /\ loc[t].status = Success
  /\ ModelFile \in localFiles

\* the source names a directory: a local directory, or a remote prefix with
\* at least one key at or below it
SourceIsDirectory ==
  IF UriKind(source) = "local"
    THEN Normal(source, 1) \in localDirs
    ELSE \E k \in remote : StartsWith(k, SourcePrefix)

\* C13: on every backend, local included, a localize whose source does not
\* exist, or exists and is not a directory, returns the "directory does not
\* exist" error, has made no temp directory and has handed out no resource.
C13_MissingSourceFails ==
  \A t \in Threads :
    (loc[t].pc \in {"ret", "released"} /\ ~SourceIsDirectory) =>
      /\ loc[t].status = Internal
      /\ loc[t].tmp_folder = <<>>
      /\ loc[t].use_count = 0 /\ loc[t].deletes = 0

\* the call of thread t walks a GCS or an S3 source
WalksStore(t) == UriKind(source) \in {"gs", "s3"} /\ loc[t].tmp_folder # <<>>

----------------------------------------------------------------------------
(* One call of GetDirectoryContents or IsDirectory on a bucket / container  *)
(* holding any set of keys.                                                 *)

\* the keys a bucket may hold: d/ is the marker of d, d/c/ that of d/c
Keys ==
  { <<"d", "/">>, <<"d", "/", "a">>, <<"d", "/", "b">>,
    <<"d", "/", "c", "/">>, <<"d", "/", "c", "/", "d">>,
    <<"d", "/", "e">>, <<"d", "a">> }

\* the URIs of the bucket root, of d with and without a slash, of the object
\* d/a and of d/c
ProbePaths(k) ==
  LET root == Scheme(k) \o (IF k = "as" THEN <<"h", "/", "c">> ELSE <<"b">>)
  IN  { root, root \o <<"/", "d">>, root \o <<"/", "d", "/">>,
        root \o <<"/", "d", "/", "a">>, root \o <<"/", "d", "/", "c">> }

ProbeInit ==
  /\ CredInit /\ S3Init /\ MatchIdle /\ GcsIdle
  /\ env = "unset"
  /\ bucket_exists \in BOOLEAN
  /\ remote \in (IF bucket_exists THEN SUBSET Keys ELSE {{}})
  /\ source = <<>>
  /\ localDirs = {Root, ModelDir}
  /\ localFiles = {ModelFile}
  /\ loc = [t \in Threads |-> LocIdle]
  /\ probe = NoProbe

ProbeOthersUnchanged ==
  UNCHANGED <<credVars, s3Vars, matchVars, apiLog, locVars, bucket_exists,
              gcsVars>>

\* the status of a request on the bucket: an error when it is not there
Requested == IF bucket_exists THEN Success ELSE Internal

\* fs->GetDirectoryContents(path, &contents)
CallGetDirectoryContents ==
  /\ probe = NoProbe
  /\ \E k \in Kinds : \E p \in ProbePaths(k) :
       probe' = [op |-> "GetDirectoryContents", kind |-> k, path |-> p,
                 status |-> Requested,
                 contents |-> IF bucket_exists
                                THEN GetDirectoryContents(k, p) ELSE {}]
  /\ ProbeOthersUnchanged

\* fs->IsDirectory(path, &is_dir)
CallIsDirectory ==
  /\ probe = NoProbe
  /\ \E k \in Kinds : \E p \in ProbePaths(k) :
       probe' = [op |-> "IsDirectory", kind |-> k, path |-> p,
                 status |-> Requested,
                 is_dir |-> bucket_exists /\ IsDirectory(k, p)]
  /\ ProbeOthersUnchanged

\* s.rfind(pat, pos): the last index, at most pos, at which pat occurs in s
RFind(s, pat, pos) ==
  LET at == { i \in 0..pos : /\ i + Len(pat) <= Len(s)
                             /\ SubSeq(s, i + 1, i + Len(pat)) = pat }
  IN  IF at = {} THEN Npos ELSE CHOOSE i \in at : \A j \in at : j <= i

\* a classification by the first scheme string found anywhere in the path
GetFileSystemType_Anywhere(p) ==
  IF p = <<>> THEN [status |-> InvalidArg, type |-> "none"]
  ELSE IF Find(p, Scheme("gs"), 0) # Npos THEN [status |-> Success, type |-> "gs"]
  ELSE IF Find(p, Scheme("s3"), 0) # Npos THEN [status |-> Success, type |-> "s3"]
  ELSE IF Find(p, Scheme("as"), 0) # Npos THEN [status |-> Success, type |-> "as"]
  ELSE [status |-> Success, type |-> "local"]

\* GetFileSystemType, built with GCS, S3 and Azure Storage enabled:
\* if (!path.rfind("gs://", 0)) ... and so on, else LOCAL
GetFileSystemType(p) ==
  IF p = <<>> THEN [status |-> InvalidArg, type |-> "none"]
  ELSE IF RFind(p, Scheme("gs"), 0) = 0 THEN [status |-> Success, type |-> "gs"]
  ELSE IF RFind(p, Scheme("s3"), 0) = 0 THEN [status |-> Success, type |-> "s3"]
  ELSE IF RFind(p, Scheme("as"), 0) = 0 THEN [status |-> Success, type |-> "as"]
  ELSE [status |-> Success, type |-> "local"]

\* pieces the classified paths are made of
PathPieces ==
  { Scheme(k) : k \in Kinds }
    \cup { <<"/">>, <<"b">>, <<"g", "s", ":", "/">>, <<"s", "3">> }

\* the paths classified: the empty path and one, two or three pieces in a row
TypedPaths ==
  {<<>>} \cup PathPieces
    \cup { x \o y : x \in PathPieces, y \in PathPieces }
    \cup { x \o y \o Scheme(k) : x \in PathPieces, y \in PathPieces, k \in Kinds }

\* GetFileSystemType(path, &type)
CallGetFileSystemType ==
  /\ probe = NoProbe
  /\ \E p \in TypedPaths :
       probe' = [op |-> "GetFileSystemType", path |-> p,
                 status |-> GetFileSystemType(p).status,
                 type |-> GetFileSystemType(p).type]
  /\ ProbeOthersUnchanged

\* NANOS_PER_MILLIS
NanosPerMilli == 1000000

\* the time, in seconds since the epoch, at which the store or the kernel
\* says the object, blob, file or directory was last modified
LastModified(name) == 1

\* std::chrono::time_point_cast<std::chrono::nanoseconds>(...).count() of a
\* time given in seconds, and TIMESPEC_TO_NANOS of a timespec with tv_nsec 0
SecondsToNanos(secs) == secs * 1000 * NanosPerMilli

\* LocalFileSystem::IsDirectory: IsPathDirectory, stat and S_ISDIR
LocalIsDirectory(p) ==
  LET n == Normal(p, 1)
  IN  [status |-> IF n \in localDirs \cup FilePaths THEN Success ELSE Internal,
       is_dir |-> n \in localDirs]

\* LocalFileSystem::FileModificationTime: stat, then st_mtim in nanoseconds
LocalFileModificationTime(p) ==
  LET n == Normal(p, 1)
  IN  IF n \notin localDirs \cup FilePaths
        THEN [status |-> Internal, mtime_ns |-> 0]
        ELSE [status |-> Success, mtime_ns |-> SecondsToNanos(LastModified(n))]

\* GCSFileSystem::FileModificationTime and S3FileSystem::FileModificationTime,
\* the bucket existing: IsDirectory first, then the metadata of the object
\* (updated() in nanoseconds; GetLastModified().Millis() * NANOS_PER_MILLIS)
ObjectFileModificationTime(k, p) ==
  LET object == ParsePath(k, p).object
  IN  IF IsDirectory(k, p) THEN [status |-> Success, mtime_ns |-> 0]
      ELSE IF object \notin remote THEN [status |-> Internal, mtime_ns |-> 0]
      ELSE [status |-> Success,
            mtime_ns |-> IF k = "gs"
                           THEN SecondsToNanos(LastModified(object))
                           ELSE LastModified(object) * 1000 * NanosPerMilli]

\* ASFileSystem::FileModificationTime: get_blob_property of the object path,
\* which sets errno when there is no such blob; last_modified in seconds
AsFileModificationTime(p) ==
  LET object_path == ParsePath("as", p).object
  IN  IF object_path \notin remote THEN [status |-> Internal, mtime_ns |-> 0]
      ELSE [status |-> Success,
            mtime_ns |-> SecondsToNanos(LastModified(object_path))]

FileModificationTime(k, p) ==
  CASE k = "local" -> LocalFileModificationTime(p)
    [] k = "as"    -> IF bucket_exists THEN AsFileModificationTime(p)
                      ELSE [status |-> Internal, mtime_ns |-> 0]
    [] OTHER       -> IF bucket_exists THEN ObjectFileModificationTime(k, p)
                      ELSE [status |-> Internal, mtime_ns |-> 0]

\* the IsDirectory of the backend of kind k
BackendIsDirectory(k, p) ==
  IF k = "local" THEN LocalIsDirectory(p)
  ELSE [status |-> Requested, is_dir |-> bucket_exists /\ IsDirectory(k, p)]

\* fs->FileModificationTime(path, &mtime_ns)
CallFileModificationTime ==
  /\ probe = NoProbe
  /\ \E k \in Kinds \cup {"local"} :
       \E p \in (IF k = "local" THEN LocalSources ELSE ProbePaths(k)) :
         probe' = [op |-> "FileModificationTime", kind |-> k, path |-> p,
                   status |-> FileModificationTime(k, p).status,
                   mtime_ns |-> FileModificationTime(k, p).mtime_ns]
  /\ ProbeOthersUnchanged

ProbeNext ==
  \/ CallGetDirectoryContents \/ CallIsDirectory \/ CallGetFileSystemType
  \/ CallFileModificationTime

SpecProbe == ProbeInit /\ [][ProbeNext]_vars

\* the prefix P of a probe: the object path with a trailing slash
ProbePrefix == AppendSlash(ParsePath(probe.kind, probe.path).object)

\* the part of key k between the end of prefix P and the next "/" or the end
ChildName(k, P) ==
  LET rest == SubSeq(k, Len(P) + 1, Len(k))
      cut  == { i \in 1..Len(rest) : rest[i] = "/" }
  IN  IF cut = {} THEN rest
      ELSE SubSeq(rest, 1, (CHOOSE i \in cut : \A j \in cut : i <= j) - 1)

\* C15: on GCS, S3 and Azure a listing under prefix P that returns success
\* returns exactly the names cut, between the end of P and the next "/" or
\* the end of the key, out of the keys that start with P and are not P.
C15_ImmediateChildren ==
  (probe.op = "GetDirectoryContents" /\ probe.status = Success) =>
    probe.contents =
      { ChildName(k, ProbePrefix) :
          k \in { x \in remote : StartsWith(x, ProbePrefix) /\ x # ProbePrefix } }

\* C16: on GCS, S3 and Azure, listing a directory whose only key is its own
\* marker (the key equal to the prefix with its trailing slash) returns the
\* empty set: neither the directory itself nor an empty name is in it.
C16_SelfMarkerListsEmpty ==
  (/\ probe.op = "GetDirectoryContents" /\ probe.status = Success
   /\ KeysWithPrefix(ProbePrefix) = {ProbePrefix}) =>
    probe.contents = {}

\* C17: on GCS, S3 and Azure isDirectory(path) answers true if and only if
\* some key starts with the object path followed by a slash, or the object
\* path is empty and the container exists: false for a single object with
\* nothing below it, true for the root of an empty container.
C17_DirectoryIffKeysBelow ==
  (probe.op = "IsDirectory" /\ probe.status = Success) =>
    (probe.is_dir <=>
       \/ KeysWithPrefix(ProbePrefix) # {}
       \/ ParsePath(probe.kind, probe.path).object = <<>> /\ bucket_exists)

\* C18: GetFileSystemType returns success on every non-empty path and gives
\* one kind: GCS when the path starts with gs://, otherwise S3 when it starts
\* with s3://, otherwise Azure when it starts with as://, otherwise Local; a
\* scheme string further on in the path has no effect.
C18_ClassifyByPrefix ==
  (probe.op = "GetFileSystemType" /\ probe.path # <<>>) =>
    /\ probe.status = Success
    /\ probe.type = (IF StartsWith(probe.path, Scheme("gs")) THEN "gs"
                     ELSE IF StartsWith(probe.path, Scheme("s3")) THEN "s3"
                     ELSE IF StartsWith(probe.path, Scheme("as")) THEN "as"
                     ELSE "local")

\* a path with gs:// after its first character has been classified as Local
C18_Witness ==
  /\ probe.op = "GetFileSystemType"
  /\ Find(probe.path, Scheme("gs"), 0) > 0
  /\ probe.status = Success /\ probe.type = "local"

----------------------------------------------------------------------------
(* resolve(kind): FileSystemManager::GetFileSystem(FileSystemType), and     *)
(* resolve of a local path, next to the resolves of cloud URIs; the         *)
(* environment stays as it is at the start.                                 *)

Types == Kinds \cup {"local"}

\* paths that start with no scheme
LocalUris == { ModelDir, <<"b">> }

\* an API function calls fsm.GetFileSystem(path, &fs) with a local path:
\* local_fs_.reset(new LocalFileSystem()); return Status::Success
ResolveLocal(t) ==
  /\ th[t].pc = "idle"
  /\ \E uri \in LocalUris :
       Set(t, [IdleRec EXCEPT !.pc = "ret", !.uri = uri, !.fs = "local",
                              !.result = Success])
  /\ CredUnchanged
  /\ UNCHANGED <<s3Vars, restVars>>

\* MakeTemporaryDirectory(type, ...) calls fsm.GetFileSystem(type, &fs):
\* const Status& status = LoadCredential();
ResolveKind(t) ==
  /\ th[t].pc = "idle"
  /\ \E type \in Types :
       Set(t, [IdleRec EXCEPT !.pc = "LoadCredential", !.type = type,
                              !.flush = FALSE, !.purpose = "kind"])
  /\ CredUnchanged
  /\ UNCHANGED <<s3Vars, restVars>>

\* a by-kind lookup that sends every kind on to the lookup by path
KindNeedsPath_Never(type) == FALSE

\* with UNAVAILABLE, "only LOCAL and GCS are not path-dependent"
KindNeedsPath(type) == type \in {"s3", "as"}

\* GetFileSystem(type): return GetFileSystem("", ...), ("gs://", ...),
\* ("s3://", ...) or ("as://", ...)
KindGoPath(t) ==
  /\ th[t].pc = "lc_ret" /\ th[t].purpose = "kind"
  /\ \/ th[t].lstatus \in {Success, AlreadyExists}
     \/ th[t].lstatus = Unavailable /\ ~KindNeedsPath(th[t].type)
  /\ IF th[t].type = "local"
       THEN Set(t, [th[t] EXCEPT !.pc = "ret", !.kind_status = th[t].lstatus,
                                 !.lstatus = "none", !.purpose = "none",
                                 !.fs = "local", !.result = Success])
       ELSE Set(t, [th[t] EXCEPT !.pc = "LoadCredential",
                                 !.kind_status = th[t].lstatus,
                                 !.lstatus = "none",
                                 !.uri = Scheme(th[t].type),
                                 !.flush = FALSE, !.purpose = "resolve",
                                 !.attempts = 1])
  /\ CredUnchanged
  /\ UNCHANGED <<s3Vars, restVars>>

\* GetFileSystem(type), UNAVAILABLE, S3 or AS: return Status(UNSUPPORTED, ...)
KindUnsupported(t) ==
  /\ th[t].pc = "lc_ret" /\ th[t].purpose = "kind"
  /\ th[t].lstatus = Unavailable /\ KindNeedsPath(th[t].type)
  /\ Set(t, [th[t] EXCEPT !.pc = "ret", !.kind_status = th[t].lstatus,
                          !.lstatus = "none", !.purpose = "none",
                          !.result = Unsupported])
  /\ CredUnchanged
  /\ UNCHANGED <<s3Vars, restVars>>

\* GetFileSystem(type): return status
KindLoadError(t) ==
  /\ th[t].pc = "lc_ret" /\ th[t].purpose = "kind"
  /\ th[t].lstatus \notin {Success, AlreadyExists, Unavailable}
  /\ Set(t, [th[t] EXCEPT !.pc = "ret", !.kind_status = th[t].lstatus,
                          !.lstatus = "none", !.purpose = "none",
                          !.result = th[t].lstatus])
  /\ CredUnchanged
  /\ UNCHANGED <<s3Vars, restVars>>

KindNext ==
  \E t \in Threads :
    \/ Resolve(t) \/ ResolveLocal(t) \/ ResolveKind(t)
    \/ KindGoPath(t) \/ KindUnsupported(t) \/ KindLoadError(t)
    \/ LoadCached(t) \/ LoadNotConfigured(t) \/ LoadReadFails(t)
    \/ LoadBeginParse(t) \/ LoadClear(t) \/ LoadPush(t) \/ LoadSort(t)
    \/ LoadFinish(t)
    \/ LoadedGoMatch(t) \/ LoadedGoLegacy(t) \/ LoadedGoError(t)
    \/ Match(t) \/ Construct(t)
    \/ ReturnError(t) \/ Reload(t) \/ Reenter(t)
    \/ Return(t)

SpecKind == Init /\ [][KindNext]_vars

\* the call in progress in r resolves the Local backend
LocalCall(r) ==
  /\ r.pc # "idle"
  /\ r.type = "local" \/ (r.type = "none" /\ UriKind(r.uri) = "local")

\* C19: a resolve of the Local backend, by a path with no gs://, s3:// or
\* as:// prefix or by kind Local, never calls LoadCredential, returns the
\* local backend with success whatever the credential file is (not
\* configured, unreadable, well-formed), and no step of it changes the
\* credential cache.
C19_LocalNeedsNoCredentials ==
  /\ [](\A t \in Threads :
          LocalCall(th[t]) =>
            /\ th[t].pc = "ret"
            /\ th[t].result = Success /\ th[t].fs = "local")
  /\ [][\A t \in Threads :
          (LocalCall(th[t]) /\ th'[t] # th[t]) =>
            UNCHANGED <<is_credential_cached_, cred>>]_vars

\* C20: when the LoadCredential() of a resolve by kind reports that no
\* credential file is configured, the resolve returns UNSUPPORTED for S3 and
\* for Azure and has constructed no backend; for Local it returns the local
\* backend; for GCS it goes on to the resolve of gs://, which constructs the
\* GCS backend from the environment and returns what its client check says.
C20_KindUnderLegacy ==
  \A t \in Threads :
    (th[t].pc = "ret" /\ th[t].type # "none"
       /\ th[t].kind_status = Unavailable) =>
      CASE th[t].type \in {"s3", "as"} ->
             th[t].result = Unsupported /\ th[t].fs = "none"
        [] th[t].type = "local" ->
             th[t].result = Success /\ th[t].fs = "local"
        [] th[t].type = "gs" ->
             /\ th[t].fs = "gs" /\ th[t].load_status = Unavailable
             /\ th[t].result \in {Success, Internal}

\* with no file configured, one thread was refused S3 by kind and the other
\* was given the GCS backend
C20_Witness ==
  \E t, u \in Threads :
    /\ th[t].pc = "ret" /\ th[t].type = "s3"
    /\ th[t].kind_status = Unavailable /\ th[t].result = Unsupported
    /\ th[u].pc = "ret" /\ th[u].type = "gs"
    /\ th[u].kind_status = Unavailable /\ th[u].result = Success

----------------------------------------------------------------------------
(* Claims about resolve(kind) with a credential file *)

\* the entries of a table whose name is no longer than any other name in it
Shortest(credentials) ==
  { i \in DOMAIN credentials :
      \A j \in DOMAIN credentials :
        Len(credentials[i].name) <= Len(credentials[j].name) }

\* C21: when a resolve by kind GCS, S3 or Azure whose LoadCredential()
\* returned OK or ALREADY_EXISTS runs its match on a non-empty table of that
\* kind, the match succeeds and gives the payload of an entry with the
\* shortest name of the table, whether or not that name is empty.
C21_KindSelectsShortest ==
  [][\A t \in Threads :
       ( /\ th[t].pc = "match" /\ th'[t] # th[t]
         /\ th[t].type \in Kinds
         /\ th[t].kind_status \in {Success, AlreadyExists}
         /\ cred[th[t].type] # <<>> ) =>
         /\ th'[t].pc = "construct"
         /\ \E i \in Shortest(cred[th[t].type]) :
              th'[t].credential = cred[th[t].type][i].cred]_vars

\* the two statuses LoadCredential uses to tell its caller that the cache was
\* already populated and that no credential file is configured
Sentinels == {AlreadyExists, Unavailable}

\* C22: a resolve, by URI or by kind, never returns ALREADY_EXISTS or
\* UNAVAILABLE to its caller, whatever LoadCredential reported, whether the
\* match and the client check succeeded, and however often it reloaded.
C22_SentinelsNeverEscape ==
  \A t \in Threads :
    th[t].pc = "ret" => th[t].result \notin Sentinels

\* a resolve by kind loaded the file, its resolve by URI then found the cache
\* populated (ALREADY_EXISTS), its match or client check failed, and it
\* returned that failure
C22_Witness ==
  \E t \in Threads :
    /\ th[t].pc = "ret" /\ th[t].type \in Kinds
    /\ th[t].kind_status = Success /\ th[t].load_status = AlreadyExists
    /\ th[t].result \in {NotFound, Internal}

----------------------------------------------------------------------------
(* GCSFileSystem constructors run by two threads, step by step: what they   *)
(* write to and read from the process environment under env_mu_.            *)

\* the payloads of the GCS credential entries: paths of key files
GcsPaths == {"g1", "g2"}

SetGcs(t, r) == gcs' = [gcs EXCEPT ![t] = r]

GcsOthersUnchanged ==
  UNCHANGED <<credVars, s3Vars, matchVars, apiLog, locVars, probeVars>>

\* gcs_fs_.reset(new GCSFileSystem(credential_path)) after a match, or
\* gcs_fs_.reset(new GCSFileSystem()) when no credential file is configured
GcsCtorBegin(t) ==
  /\ gcs[t].pc = "none"
  /\ \E credential_path \in GcsPaths \cup {"default"} :
       SetGcs(t, [pc |-> "lock", credential_path |-> credential_path,
                  client_ |-> "none"])
  /\ UNCHANGED <<gac, env_mu_>>
  /\ GcsOthersUnchanged

\* std::lock_guard<std::mutex> lock(env_mu_)
GcsCtorLock(t) ==
  /\ gcs[t].pc = "lock"
  /\ env_mu_ = NoThread
  /\ env_mu_' = t
  /\ SetGcs(t, [gcs[t] EXCEPT !.pc = IF gcs[t].credential_path = "default"
                                       THEN "create" ELSE "setenv"])
  /\ UNCHANGED gac
  /\ GcsOthersUnchanged

\* setenv("GOOGLE_APPLICATION_CREDENTIALS", credential_path.c_str(), 1)
GcsSetenv(t) ==
  /\ gcs[t].pc = "setenv"
  /\ gac' = gcs[t].credential_path
  /\ SetGcs(t, [gcs[t] EXCEPT !.pc = "create"])
  /\ UNCHANGED env_mu_
  /\ GcsOthersUnchanged

\* client_ = gcs::Client::CreateDefaultClient(): the default credentials are
\* those GOOGLE_APPLICATION_CREDENTIALS names at this moment
GcsCreateClient(t) ==
  /\ gcs[t].pc = "create"
  /\ SetGcs(t, [gcs[t] EXCEPT !.pc = "unlock", !.client_ = gac])
  /\ UNCHANGED <<gac, env_mu_>>
  /\ GcsOthersUnchanged

\* the constructor returns and the lock_guard releases env_mu_
GcsCtorUnlock(t) ==
  /\ gcs[t].pc = "unlock"
  /\ env_mu_' = NoThread
  /\ SetGcs(t, [gcs[t] EXCEPT !.pc = "built"])
  /\ UNCHANGED gac
  /\ GcsOthersUnchanged

\* the FileSystemManager that holds the backend is destroyed
GcsDtor(t) ==
  /\ gcs[t].pc = "built"
  /\ SetGcs(t, [pc |-> "none", credential_path |-> "none", client_ |-> "none"])
  /\ UNCHANGED <<gac, env_mu_>>
  /\ GcsOthersUnchanged

GcsNext ==
  \E t \in Threads :
    \/ GcsCtorBegin(t) \/ GcsCtorLock(t) \/ GcsSetenv(t)
    \/ GcsCreateClient(t) \/ GcsCtorUnlock(t) \/ GcsDtor(t)

SpecGcs == Init /\ [][GcsNext]_vars

\* C23: constructing, using and destroying GCS backends writes nothing of
\* the process that another thread's backend reads: no step changes the
\* process environment, and a backend constructed without a credential path
\* gets the credentials the process was started with.
C23_OnlyCacheAndSdkCountShared ==
  /\ [][gac' = gac]_vars
  /\ [](\A t \in Threads :
          (gcs[t].pc = "built" /\ gcs[t].credential_path = "default") =>
            gcs[t].client_ = UserAdc)

----------------------------------------------------------------------------
(* Claims about the operations every backend offers *)

\* C24: on the local, GCS, S3 and Azure backends, FileModificationTime of a
\* path for which the backend's IsDirectory succeeds with true returns
\* success and the time 0.
C24_DirectoryTimeIsZero ==
  probe.op = "FileModificationTime" =>
    LET d == BackendIsDirectory(probe.kind, probe.path)
    IN  (d.status = Success /\ d.is_dir) =>
          (probe.status = Success /\ probe.mtime_ns = 0)

----------------------------------------------------------------------------
(* Claims about the walk of a remote localize *)

\* the object paths below the source: every object that is not a marker, and
\* every pseudo-directory on the way to an object or marker
PathsBelow ==
  { k \in Below : ~IsMarker(k) }
    \cup { SourcePrefix \o d : d \in UNION { DirPrefixes(Rel(k)) : k \in Below } }

\* C25: in a localize on GCS, S3 or Azure the walk takes up no path twice
\* and no path that is not at or below the source, and when the call has returned
\* success, with no failure from outside the store, the paths it has taken
\* up are exactly the files and pseudo-directories below the source.
C25_WalkVisitsEachOnce ==
  \A t \in Threads :
    LET v == loc[t].visits
    IN  /\ \A i, j \in DOMAIN v : i # j => v[i] # v[j]
        /\ \A i \in DOMAIN v :
             StartsWith(v[i], SourcePrefix)
        /\ ( /\ loc[t].pc = "ret" /\ loc[t].status = Success
             /\ loc[t].tmp_folder # <<>> /\ ~loc[t].faulted ) =>
             { v[i] : i \in DOMAIN v } = PathsBelow

\* C26: when a localize on GCS, S3 or Azure has returned success, with no
\* failure from outside the store, the list requests its walk has sent are
\* as many as the directories of the tree it has made (the temp root and
\* every directory below it), and the object read requests as many as the
\* files of that tree.
C26_OneListingPerDirectory ==
  \A t \in Threads :
    ( /\ loc[t].pc = "ret" /\ loc[t].status = Success
      /\ loc[t].tmp_folder # <<>> /\ ~loc[t].faulted ) =>
      /\ loc[t].lists = 1 + Cardinality(loc[t].written \cap localDirs)
      /\ loc[t].reads = Cardinality(loc[t].written \cap FilePaths)

----------------------------------------------------------------------------
(* Claims about the S3 clients and the AWS SDK *)

\* C27: in every interleaving of S3FileSystem constructors and destructors,
\* while a thread's instances hold an S3Client the AWS SDK is initialized,
\* and every step that creates or destroys an S3Client is taken with the SDK
\* initialized.
C27_NoClientWhileSdkDown ==
  /\ [](\A t \in Threads : s3[t].clients > 0 => sdk = "up")
  /\ [][\A t \in Threads :
          s3'[t].clients # s3[t].clients => sdk = "up"]_vars

----------------------------------------------------------------------------
(* Claims about the populated flag and the tables across LoadCredential *)

\* C28: no step takes is_credential_cached_ from true to false; the parses
\* completed by LoadCredential(false) calls number at most one; and a
\* LoadCredential(false) that finds the flag set returns ALREADY_EXISTS,
\* whatever the credential path is by then.
C28_PopulatedFlagMonotonic ==
  /\ [][is_credential_cached_ => is_credential_cached_']_vars
  /\ [](parsesNoFlush <= 1)
  /\ [][\A t \in Threads :
          (LoadStep(t) /\ ~th[t].flush /\ is_credential_cached_) =>
            (th'[t].pc = "lc_ret" /\ th'[t].lstatus = AlreadyExists)]_vars

\* the cache is populated, a flush reload has come back saying the path is
\* unset or the file unreadable, and a later load(false) was told
\* ALREADY_EXISTS
C28_Witness ==
  /\ is_credential_cached_
  /\ env \in {"unset", "unreadable"}
  /\ \E t, u \in Threads :
       /\ th[t].pc = "lc_ret" /\ th[t].flush
       /\ th[t].lstatus \in {Unavailable, Internal}
       /\ th[u].pc = "lc_ret" /\ ~th[u].flush
       /\ th[u].lstatus = AlreadyExists

\* C29: a LoadCredential call that returns anything but OK (ALREADY_EXISTS,
\* UNAVAILABLE, or the error of reading or parsing the file) returns in the
\* step in which it took mu_, and that step changes no credential table and
\* not the populated flag.
C29_FailedLoadChangesNothing ==
  [][\A t \in Threads :
       ( /\ th[t].pc # "lc_ret" /\ th'[t].pc = "lc_ret"
         /\ th'[t].lstatus # Success ) =>
         /\ th[t].pc = "LoadCredential"
         /\ UNCHANGED <<cred, is_credential_cached_>>]_vars

\* with the tables of a document loaded, a flush reload has failed on an
\* unreadable file and another load was told that no path is set
C29_Witness ==
  /\ is_credential_cached_
  /\ \E k \in Kinds : cred[k] # <<>>
  /\ \E t, u \in Threads :
       /\ th[t].pc = "lc_ret" /\ th[t].flush /\ th[t].lstatus = Internal
       /\ th[u].pc = "lc_ret" /\ th[u].lstatus = Unavailable

----------------------------------------------------------------------------
(* Claims about who owns the temp directory of a remote localize *)

\* the directories mkdtemp has made for the calls of this behaviour
MadeTempDirs ==
  { d \in localDirs : d \in { FolderTemplate \o x : x \in TempSuffixes } } \ {StaleDir}

\* C30: on GCS, S3 and Azure every temp directory a localize has made is the
\* local path of a LocalizedDirectory that a caller holds, from the step
\* that makes it on, so before the first step of the walk and also after
\* the localize has returned an error in the middle of the walk; and when
\* the last holder has released it, the delete has run once and neither the
\* temp directory nor anything under it exists, until a later call is
\* given the same name for a directory of its own.
C30_TempDirAlwaysOwned ==
  /\ \A d \in MadeTempDirs :
       \E t \in Threads :
         /\ loc[t].tmp_folder = d
         /\ loc[t].use_count >= 1 /\ loc[t].pc # "released"
  /\ \A t \in Threads :
       /\ (loc[t].lists > 0 \/ loc[t].visits # <<>>) =>
            (loc[t].tmp_folder # <<>> /\ loc[t].use_count + loc[t].deletes >= 1)
       /\ (loc[t].pc = "released" /\ loc[t].tmp_folder # <<>>) =>
            /\ loc[t].deletes = 1
            /\ \/ TempTree(t, localDirs, localFiles) = {}
               \/ \E u \in Threads \ {t} :
                    /\ loc[u].tmp_folder = loc[t].tmp_folder
                    /\ loc[u].use_count >= 1

\* a localize made a directory and a file under its temp directory, failed
\* in the middle of the walk, and its caller has released what it was given
C30_Witness ==
  \E t \in Threads :
    /\ loc[t].pc = "released" /\ loc[t].status = Internal
    /\ loc[t].tmp_folder # <<>> /\ loc[t].deletes = 1
    /\ Cardinality(loc[t].written) >= 2
    /\ loc[t].tmp_folder \notin localDirs

====
